---------------------------- MODULE Spec2Model ----------------------------
(***************************************************************************)
(* A model of the configuration-driven invoice extraction engine           *)
(* (src/python/unified_parser): the number/date normalisers of utils.py,   *)
(* the configuration schema of schemas.py and the extraction pipeline of   *)
(* engine.py (UnifiedInvoiceParser.extract and the methods it calls).      *)
(*                                                                         *)
(* Text is modelled character by character: a Python str is a sequence of  *)
(* one-character strings, so that substring tests, splitting, number       *)
(* parsing and number formatting are computed, not assumed.  A Python      *)
(* float is modelled by the exact rational it denotes; the inputs are      *)
(* chosen so that binary rounding plays no part (amounts whose fractional  *)
(* part is a multiple of 1/4, ratios that are dyadic).  A Python dict is a *)
(* function whose DOMAIN is the set of keys present.                       *)
(***************************************************************************)
EXTENDS Integers, Sequences, FiniteSets, TLC

(***************************************************************************)
(* Characters and elementary str methods                                   *)
(***************************************************************************)
UpperChars == <<"A","B","C","D","E","F","G","H","I","J","K","L","M",
                "N","O","P","Q","R","S","T","U","V","W","X","Y","Z">>

LowerChars == <<"a","b","c","d","e","f","g","h","i","j","k","l","m",
                "n","o","p","q","r","s","t","u","v","w","x","y","z">>

DigitChars == <<"0","1","2","3","4","5","6","7","8","9">>

IsDigit(c) == \E i \in 1..10 : DigitChars[i] = c

DigitVal(c) == (CHOOSE i \in 1..10 : DigitChars[i] = c) - 1

IsSpace(c) == c \in {" ", "\n", "\t", "\r"}

\* A "word" character of the regex engine (\w): letter, digit or underscore.
IsWordChar(c) ==
    \/ IsDigit(c)
    \/ c = "_"
    \/ \E i \in 1..26 : UpperChars[i] = c \/ LowerChars[i] = c

LowerChar(c) ==
    IF \E i \in 1..26 : UpperChars[i] = c
    THEN LowerChars[CHOOSE i \in 1..26 : UpperChars[i] = c]
    ELSE c

UpperChar(c) ==
    IF \E i \in 1..26 : LowerChars[i] = c
    THEN UpperChars[CHOOSE i \in 1..26 : LowerChars[i] = c]
    ELSE c

\* str.lower() and str.upper()
StrLower(s) == [i \in 1..Len(s) |-> LowerChar(s[i])]

StrUpper(s) == [i \in 1..Len(s) |-> UpperChar(s[i])]

\* s.startswith(p)
StartsWith(s, p) == Len(p) <= Len(s) /\ SubSeq(s, 1, Len(p)) = p

\* sub occurs in s at position i (1-based)
OccursAt(s, sub, i) ==
    i >= 1 /\ i + Len(sub) - 1 <= Len(s) /\ SubSeq(s, i, i + Len(sub) - 1) = sub

\* `sub in s`
Contains(s, sub) == \E i \in 1..(Len(s) - Len(sub) + 1) : OccursAt(s, sub, i)

\* s.find(sub): the first position (1-based), 0 when absent
FindFirst(s, sub) ==
    IF Contains(s, sub)
    THEN CHOOSE i \in 1..Len(s) :
            /\ OccursAt(s, sub, i)
            /\ \A j \in 1..(i - 1) : ~OccursAt(s, sub, j)
    ELSE 0

\* s.rfind(c) for a single character: the last position, 0 when absent
RFindChar(s, c) ==
    IF \E i \in 1..Len(s) : s[i] = c
    THEN CHOOSE i \in 1..Len(s) : s[i] = c /\ \A j \in (i + 1)..Len(s) : s[j] # c
    ELSE 0

\* the regex \b(sub)\b: sub occurs as a whole word
ContainsWord(s, sub) ==
    \E i \in 1..(Len(s) - Len(sub) + 1) :
        /\ OccursAt(s, sub, i)
        /\ (i = 1 \/ ~IsWordChar(s[i - 1]))
        /\ (i + Len(sub) - 1 = Len(s) \/ ~IsWordChar(s[i + Len(sub)]))

\* s.replace(c, '') for a single character
RECURSIVE RemoveChar(_, _)
RemoveChar(s, c) ==
    IF s = <<>> THEN <<>>
    ELSE IF Head(s) = c THEN RemoveChar(Tail(s), c)
    ELSE <<Head(s)>> \o RemoveChar(Tail(s), c)

\* s.replace(c, d) for single characters
ReplaceChar(s, c, d) == [i \in 1..Len(s) |-> IF s[i] = c THEN d ELSE s[i]]

\* s.replace(sub, '') for a substring: left to right, non-overlapping
RECURSIVE RemoveSub(_, _)
RemoveSub(s, sub) ==
    IF s = <<>> THEN <<>>
    ELSE IF OccursAt(s, sub, 1) THEN RemoveSub(SubSeq(s, Len(sub) + 1, Len(s)), sub)
    ELSE <<Head(s)>> \o RemoveSub(Tail(s), sub)

\* s.strip()
RECURSIVE LStrip(_)
LStrip(s) == IF s # <<>> /\ IsSpace(Head(s)) THEN LStrip(Tail(s)) ELSE s

RECURSIVE RStrip(_)
RStrip(s) ==
    IF s # <<>> /\ IsSpace(s[Len(s)]) THEN RStrip(SubSeq(s, 1, Len(s) - 1)) ELSE s

Strip(s) == RStrip(LStrip(s))

\* s.split(c): the pieces between the occurrences of the character c
RECURSIVE SplitChar(_, _)
SplitChar(s, c) ==
    IF \E i \in 1..Len(s) : s[i] = c
    THEN LET i == CHOOSE k \in 1..Len(s) : s[k] = c /\ \A j \in 1..(k - 1) : s[j] # c
         IN  <<SubSeq(s, 1, i - 1)>> \o SplitChar(SubSeq(s, i + 1, Len(s)), c)
    ELSE <<s>>

\* sep.join(parts)
RECURSIVE Join(_, _)
Join(parts, sep) ==
    IF parts = <<>> THEN <<>>
    ELSE IF Len(parts) = 1 THEN parts[1]
    ELSE parts[1] \o sep \o Join(Tail(parts), sep)

\* re.sub(r'\s+', ' ', s): every run of white space becomes one blank
RECURSIVE CollapseSpaces(_)
CollapseSpaces(s) ==
    IF s = <<>> THEN <<>>
    ELSE IF IsSpace(Head(s))
         THEN <<" ">> \o CollapseSpaces(LStrip(s))
         ELSE <<Head(s)>> \o CollapseSpaces(Tail(s))

\* keep the characters satisfying a test: re.sub of a negated class by ''
RECURSIVE KeepNumeric(_)
KeepNumeric(s) ==
    IF s = <<>> THEN <<>>
    ELSE IF IsDigit(Head(s)) \/ Head(s) \in {".", "-"}
         THEN <<Head(s)>> \o KeepNumeric(Tail(s))
         ELSE KeepNumeric(Tail(s))

RECURSIVE KeepDigits(_)
KeepDigits(s) ==
    IF s = <<>> THEN <<>>
    ELSE IF IsDigit(Head(s)) THEN <<Head(s)>> \o KeepDigits(Tail(s))
    ELSE KeepDigits(Tail(s))

AllDigits(s) == \A i \in 1..Len(s) : IsDigit(s[i])


(***************************************************************************)
(* Python floats as exact rationals [n, d] in lowest terms, d > 0          *)
(***************************************************************************)
Abs(x) == IF x < 0 THEN -x ELSE x

RECURSIVE Gcd(_, _)
Gcd(a, b) == IF b = 0 THEN a ELSE Gcd(b, a % b)

Rat(n, d) ==
    LET g == Gcd(Abs(n), d)
    IN  [n |-> (IF n < 0 THEN -(Abs(n) \div g) ELSE n \div g), d |-> d \div g]

RZero == [n |-> 0, d |-> 1]

RInt(k) == [n |-> k, d |-> 1]

RAdd(a, b) == Rat(a.n * b.d + b.n * a.d, a.d * b.d)

RNeg(a) == [n |-> -a.n, d |-> a.d]

RSub(a, b) == RAdd(a, RNeg(b))

RMul(a, b) == Rat(a.n * b.n, a.d * b.d)

\* a / b for b # 0
RDiv(a, b) ==
    IF b.n < 0 THEN Rat(-(a.n * b.d), a.d * (-b.n)) ELSE Rat(a.n * b.d, a.d * b.n)

RLess(a, b) == a.n * b.d < b.n * a.d

RAbs(a) == [n |-> Abs(a.n), d |-> a.d]

\* float.is_integer()
RIsInteger(a) == a.d = 1

RECURSIVE Pow10(_)
Pow10(k) == IF k = 0 THEN 1 ELSE 10 * Pow10(k - 1)

\* the decimal digits of a natural number: str(int) without sign
RECURSIVE NatDigits(_)
NatDigits(k) ==
    IF k < 10 THEN <<DigitChars[k + 1]>>
    ELSE NatDigits(k \div 10) \o <<DigitChars[(k % 10) + 1]>>

\* int(digits) for a sequence of digit characters (the empty sequence gives 0)
RECURSIVE DigitsToNat(_)
DigitsToNat(s) ==
    IF s = <<>> THEN 0
    ELSE 10 * DigitsToNat(SubSeq(s, 1, Len(s) - 1)) + DigitVal(s[Len(s)])

\* k written with at least w digits: zero padding on the left
RECURSIVE PadDigits(_, _)
PadDigits(s, w) == IF Len(s) >= w THEN s ELSE PadDigits(<<"0">> \o s, w)

\* str(int(x)) for an integral x
PyStrInt(k) == IF k < 0 THEN <<"-">> \o NatDigits(-k) ELSE NatDigits(k)

\* The largest number of decimals a float of the model is written with by str().
MaxDecimals == 6

\* str(x) for a float x that is a terminating decimal: the shortest decimal
\* that denotes it, with ".0" for an integral value.
PyStrFloat(a) ==
    LET k    == CHOOSE j \in 0..MaxDecimals :
                    /\ (Abs(a.n) * Pow10(j)) % a.d = 0
                    /\ \A i \in 0..(j - 1) : (Abs(a.n) * Pow10(i)) % a.d # 0
        m    == (Abs(a.n) * Pow10(k)) \div a.d
        sign == IF a.n < 0 THEN <<"-">> ELSE <<>>
    IN  IF k = 0
        THEN sign \o NatDigits(m) \o <<".", "0">>
        ELSE sign \o NatDigits(m \div Pow10(k)) \o <<".">>
                  \o PadDigits(NatDigits(m % Pow10(k)), k)

\* round(|x| * 100) to the nearest integer, an exact tie going to the even one
\* (the float is exact in the model, and Python then rounds half to even)
RoundCents(a) ==
    LET num == Abs(a.n) * 100
        q   == num \div a.d
        r2  == 2 * (num % a.d)
    IN  IF r2 > a.d \/ (r2 = a.d /\ q % 2 = 1) THEN q + 1 ELSE q

\* f"{x:.2f}"
Fmt2f(a) ==
    LET c    == RoundCents(a)
        sign == IF a.n < 0 THEN <<"-">> ELSE <<>>
    IN  sign \o NatDigits(c \div 100) \o <<".">> \o PadDigits(NatDigits(c % 100), 2)

\* float(s) for a str s: [ok, val]; ok = FALSE stands for ValueError.  The
\* texts of the model hold no exponent, no underscore and no inf/nan, which
\* float() would accept too.
PyFloat(s) ==
    LET Unsigned(negative, body, digs) ==
            IF digs # <<>> /\ AllDigits(digs) /\ Len(body) - Len(digs) <= 1
            THEN [ok |-> TRUE,
                  val |-> Rat(IF negative THEN -DigitsToNat(digs) ELSE DigitsToNat(digs),
                              Pow10(IF Len(body) - Len(digs) = 1
                                    THEN Len(body) - RFindChar(body, ".") ELSE 0))]
            ELSE [ok |-> FALSE, val |-> RZero]
        Signed(t) ==
            IF t # <<>> /\ t[1] \in {"-", "+"}
            THEN Unsigned(t[1] = "-", Tail(t), RemoveChar(Tail(t), "."))
            ELSE Unsigned(FALSE, t, RemoveChar(t, "."))
    IN  Signed(Strip(s))

(***************************************************************************)
(* unified_parser/utils.py                                                 *)
(***************************************************************************)
\* One-character stand-ins for the non-ASCII characters the code names.
EuroSign == "<euro>"

PoundSign == "<pound>"

InvisibleChars == {"<nbsp>", "<nnbsp>", "<zwsp>"}

RECURSIVE RemoveInvisible(_)
RemoveInvisible(s) ==
    IF s = <<>> THEN <<>>
    ELSE IF Head(s) \in InvisibleChars THEN RemoveInvisible(Tail(s))
    ELSE <<Head(s)>> \o RemoveInvisible(Tail(s))

\* re.match(r'^-?\d+(\.\d+)?$', s)
IsCleanNumber(s) ==
    LET Unsigned(body, p) ==
            IF p = 0
            THEN body # <<>> /\ AllDigits(body)
            ELSE /\ p > 1 /\ p < Len(body)
                 /\ AllDigits(SubSeq(body, 1, p - 1))
                 /\ AllDigits(SubSeq(body, p + 1, Len(body)))
    IN  IF s # <<>> /\ s[1] = "-" THEN Unsigned(Tail(s), FindFirst(Tail(s), <<".">>))
        ELSE Unsigned(s, FindFirst(s, <<".">>))

\* the separators resolved with every ',' taken for a thousands separator
ResolveSeparatorsDotDecimal(s) == RemoveChar(s, ",")

\* lines 22-41: which of ',' and '.' is the decimal separator
ResolveSeparators(s) ==
    IF Contains(s, <<",">>) /\ Contains(s, <<".">>)
    THEN IF RFindChar(s, ",") > RFindChar(s, ".")
         THEN ReplaceChar(RemoveChar(s, "."), ",", ".")
         ELSE RemoveChar(s, ",")
    ELSE IF Contains(s, <<",">>)
    THEN LET Decimal(parts) == Len(parts) = 2 /\ Len(parts[2]) # 3
         IN  IF Decimal(SplitChar(s, ","))
             THEN ReplaceChar(s, ",", ".")
             ELSE RemoveChar(s, ",")
    ELSE s

\* the threshold of the secondary guard, line 48
LargeMagnitude == 100000

\* lines 48-61: re-derive the value when a decimal comma was stripped
SecondaryGuard(original_s, val) ==
    IF /\ RLess(RInt(LargeMagnitude), val)
       /\ Contains(original_s, <<",">>)
       /\ ~Contains(original_s, <<".">>)
    THEN LET Rederived(f2) == IF f2.ok THEN f2.val ELSE val
             Guard(parts) ==
                IF Len(parts) = 2 /\ Len(KeepDigits(parts[2])) = 2
                THEN Rederived(PyFloat(KeepNumeric(
                        ReplaceChar(RemoveChar(original_s, " "), ",", "."))))
                ELSE val
         IN  Guard(SplitChar(original_s, ","))
    ELSE val

\* parse_number(s): never a ValueError, 0.0 for what cannot be read
parse_number(s) ==
    IF s = <<>> THEN RZero
    ELSE
    LET Guarded(f)  == IF f.ok THEN SecondaryGuard(s, f.val) ELSE RZero
        Cleaned(s2) == IF IsCleanNumber(s2) THEN PyFloat(s2).val
                       ELSE Guarded(PyFloat(KeepNumeric(ResolveSeparators(s2))))
    IN  Cleaned(RemoveInvisible(Strip(RemoveChar(RemoveChar(RemoveSub(
                    RemoveChar(s, EuroSign), <<"E", "U", "R">>), "$"), PoundSign))))

\* clean_text(text): white space normalised within each line, lines kept
clean_text(text) ==
    LET lines == SplitChar(text, "\n")
    IN  Join([i \in 1..Len(lines) |-> Strip(CollapseSpaces(lines[i]))], <<"\n">>)


(***************************************************************************)
(* Python dicts with str keys and str values                               *)
(***************************************************************************)
EmptyDict == [k \in {} |-> <<>>]

\* The value null (Python None) where a str is expected.
NoneValue == <<"<None>">>

\* key in d
HasKey(d, k) == k \in DOMAIN d

\* d.get(k, '')
Get(d, k) == IF k \in DOMAIN d THEN d[k] ELSE <<>>

\* bool(d.get(k)): the key is present and its value is neither '' nor None
Truthy(d, k) == k \in DOMAIN d /\ d[k] # <<>> /\ d[k] # NoneValue

\* d[k] = v
Put(d, k, v) == [x \in (DOMAIN d) \cup {k} |-> IF x = k THEN v ELSE d[x]]

\* {**a, **b}: the keys of b lie over those of a
MergeDicts(a, b) ==
    [x \in (DOMAIN a) \cup (DOMAIN b) |-> IF x \in DOMAIN b THEN b[x] ELSE a[x]]

\* bool(d) for a dict
NonEmptyDict(d) == DOMAIN d # {}

(***************************************************************************)
(* engine.py: the row pipeline, UnifiedInvoiceParser._process_item         *)
(***************************************************************************)
VendorShakerStore == <<"S", "h", "a", "k", "e", "r", " ", "S", "t", "o", "r", "e">>

VendorYamamoto == <<"Y", "a", "m", "a", "m", "o", "t", "o", " ", "N", "u", "t", "r", "i", "t", "i", "o", "n">>

VendorIoGenix == <<"I", "O", " ", "G", "E", "N", "I", "X">>

VendorLifePro == <<"L", "i", "f", "e", " ", "P", "r", "o">>

VendorGeneric == <<"A", "c", "m", "e">>

\* line 133
ShippingSkus == {<<"D", "E", "L", "I", "V", "E", "R", "Y">>, <<"S", "H", "I", "P", "P", "I", "N", "G">>,
                 <<"F", "R", "E", "I", "G", "H", "T">>, <<"V", "E", "R", "S", "A", "N", "D">>}

\* line 136: the keywords matched on word boundaries
StrictShippingKeywords == {<<"u", "p", "s">>, <<"z", "o", "n", "e">>}

\* lines 140 and 145: the keywords matched as substrings
LooseShippingKeywords ==
    {<<"s", "h", "i", "p", "p", "i", "n", "g">>, <<"f", "r", "e", "i", "g", "h", "t">>,
     <<"f", "r", "a", "c", "h", "t">>, <<"d", "e", "l", "i", "v", "e", "r", "y">>,
     <<"v", "e", "r", "s", "a", "n", "d">>,
     <<"s", "z", "<a-acute>", "l", "l", "<i-acute>", "t", "<a-acute>", "s">>}

\* line 161
FooterKeywords ==
    {<<"g", "e", "s", "a", "m", "t">>, <<"t", "o", "t", "a", "l">>,
     <<"s", "u", "b", "t", "o", "t", "a", "l">>, <<"s", "u", "m">>, <<"t", "v", "a">>,
     <<"t", "a", "x">>, <<"n", "e", "t">>, <<"b", "r", "u", "t">>}

\* lines 175-182
MetadataPatterns ==
    {<<"e", "x", "p", "i", "r", "y", " ", "d", "a", "t", "e", ":">>,
     <<"b", "l", "a", "c", "k", " ", "f", "r", "i", "d", "a", "y">>,
     <<"d", "e", "a", "l", " ", "o", "f", " ", "t", "h", "e", " ", "m", "o", "n", "t", "h">>,
     <<"m", "e", "g", "a", " ", "d", "e", "a", "l">>,
     <<"s", "a", "m", "p", "l", "e", " ", "p", "o", "i", "n", "t", "s">>,
     <<"(", "e", "x", "p", "i", "r", "e", "s", ":">>}

\* line 171: the length under which a description starting with a footer
\* keyword is taken for a summary row
ShortDescriptionLen == 50

ContainsAny(s, kws) == \E kw \in kws : Contains(s, kw)

StartsWithAny(s, kws) == \E kw \in kws : StartsWith(s, kw)

\* lines 93-110: the Shaker Store multi-line merge.  [veto, item, pending]
MergeStage(vendor, pending, item) ==
    IF vendor = VendorShakerStore
    THEN IF Truthy(item, "sku") /\ Truthy(item, "description") /\ ~Truthy(item, "total")
         THEN [veto |-> TRUE, item |-> item, pending |-> item]
         ELSE IF Truthy(item, "total") /\ ~Truthy(item, "sku")
                                       /\ ~Truthy(item, "description")
         THEN IF NonEmptyDict(pending)
              THEN [veto |-> FALSE, item |-> MergeDicts(pending, item),
                    pending |-> EmptyDict]
              ELSE [veto |-> TRUE, item |-> item, pending |-> pending]
         ELSE [veto |-> FALSE, item |-> item, pending |-> pending]
    ELSE [veto |-> FALSE, item |-> item, pending |-> pending]

\* lines 112-114 with the presence of a key taken for a value
HasIdentityByKey(item) ==
    HasKey(item, "description") \/ HasKey(item, "sku") \/ HasKey(item, "position")

\* lines 112-114
HasIdentity(item) ==
    Truthy(item, "description") \/ Truthy(item, "sku") \/ Truthy(item, "position")

\* re.match(r'^\[(.+?)\]', description): the end of the shortest bracketed
\* token, 0 when there is none ('.' does not match a line break)
BracketEnd(description) ==
    IF \E j \in 3..Len(description) :
            /\ description[j] = "]"
            /\ \A i \in 2..(j - 1) : description[i] # "\n"
    THEN CHOOSE j \in 3..Len(description) :
            /\ description[j] = "]"
            /\ \A i \in 2..(j - 1) : description[i] # "\n"
            /\ \A i \in 3..(j - 1) : description[i] # "]"
    ELSE 0

\* lines 119-123: SKU back-fill from a description "[sku] text"
SkuBackfill(item) ==
    LET description == Get(item, "description")
    IN  IF ~Truthy(item, "sku") /\ StartsWith(description, <<"[">>)
           /\ BracketEnd(description) # 0
        THEN Put(item, "sku", SubSeq(description, 2, BracketEnd(description) - 1))
        ELSE item

\* lines 129-146 with the sku test alone
IsShippingBySku(item) == StrUpper(Get(item, "sku")) \in ShippingSkus

\* lines 129-146
IsShipping(item) ==
    LET description_lower == StrLower(Get(item, "description"))
    IN  IF StrUpper(Get(item, "sku")) \in ShippingSkus THEN TRUE
        ELSE IF \E kw \in StrictShippingKeywords : ContainsWord(description_lower, kw)
        THEN TRUE
        ELSE IF ContainsAny(description_lower, LooseShippingKeywords) THEN TRUE
        ELSE IF Truthy(item, "position")
        THEN ContainsAny(StrLower(item["position"]), LooseShippingKeywords)
        ELSE FALSE

\* float(d.get(k, 0)): an absent key reads as 0
FloatOrZero(d, k) == IF HasKey(d, k) THEN PyFloat(d[k]) ELSE [ok |-> TRUE, val |-> RZero]

\* lines 148-157: the shipping cost is added to totals.shipping_fee when it
\* reads as a positive float; a ValueError of either float() is swallowed
AccumulateShipping(totals, item) ==
    LET Add(shipping_cost, current_shipping) ==
            IF shipping_cost.ok /\ RLess(RZero, shipping_cost.val) /\ current_shipping.ok
            THEN Put(totals, "shipping_fee",
                     PyStrFloat(RAdd(current_shipping.val, shipping_cost.val)))
            ELSE totals
    IN  Add(FloatOrZero(item, "total"), FloatOrZero(totals, "shipping_fee"))

\* lines 160-172
IsFooterRow(item) ==
    LET description_lower == StrLower(Get(item, "description"))
    IN  \/ /\ Truthy(item, "position")
           /\ ContainsAny(StrLower(item["position"]), FooterKeywords)
        \/ /\ ContainsAny(description_lower, FooterKeywords)
           /\ Len(Strip(description_lower)) < ShortDescriptionLen
           /\ StartsWithAny(Strip(description_lower), FooterKeywords)

\* lines 185-188
IsMetadataRow(item) ==
    LET description_lower == StrLower(Get(item, "description"))
    IN  /\ ContainsAny(description_lower, MetadataPatterns)
        /\ StartsWithAny(Strip(description_lower), MetadataPatterns)

\* lines 191-197: the lines of the description that hold no metadata pattern
RECURSIVE CleanLines(_)
CleanLines(lines) ==
    IF lines = <<>> THEN <<>>
    ELSE IF ContainsAny(Strip(StrLower(Head(lines))), MetadataPatterns)
         THEN CleanLines(Tail(lines))
         ELSE <<Strip(Head(lines))>> \o CleanLines(Tail(lines))

\* lines 207-217: total = quantity * unit_price when the key is absent
ComputeMissingTotal(vendor, item) ==
    IF ~HasKey(item, "total") /\ HasKey(item, "quantity") /\ HasKey(item, "unit_price")
    THEN IF vendor = VendorYamamoto
         THEN Put(item, "total", <<"0">>)
         ELSE LET Product(qty, price) ==
                      IF qty.ok /\ price.ok
                      THEN Put(item, "total", Fmt2f(RMul(qty.val, price.val)))
                      ELSE item
              IN  Product(PyFloat(item["quantity"]), PyFloat(item["unit_price"]))
    ELSE item

\* _process_item(item): [emit, item, pending, totals]; emit = FALSE is the
\* return of None
ProcessItem(vendor, pending, totals, raw) ==
    LET Filtered(m, item, cleaned) ==
            IF IsShipping(item)
            THEN [emit |-> FALSE, item |-> item, pending |-> m.pending,
                  totals |-> AccumulateShipping(totals, item)]
            ELSE IF IsFooterRow(item) \/ IsMetadataRow(item) \/ cleaned = <<>>
            THEN [emit |-> FALSE, item |-> item, pending |-> m.pending,
                  totals |-> totals]
            ELSE [emit |-> TRUE,
                  item |-> ComputeMissingTotal(vendor,
                               Put(item, "description", Join(cleaned, <<" ">>))),
                  pending |-> m.pending, totals |-> totals]
        Merged(m) ==
            IF m.veto
            THEN [emit |-> FALSE, item |-> raw, pending |-> m.pending, totals |-> totals]
            ELSE IF ~HasIdentity(m.item)
            THEN [emit |-> FALSE, item |-> m.item, pending |-> m.pending,
                  totals |-> totals]
            ELSE Filtered(m, SkuBackfill(m.item),
                          CleanLines(SplitChar(Get(m.item, "description"), "\n")))
    IN  Merged(MergeStage(vendor, pending, raw))


(***************************************************************************)
(* unified_parser/utils.py: normalize_date                                 *)
(***************************************************************************)
\* lines 96-112: the month tables, each in the order the dict is written in
\* (a Python dict keeps its keys in insertion order, a repeated key keeping
\* its first position).  Accented letters are one-character stand-ins.
MonthsEn ==
  <<
    <<<<"j", "a", "n", "u", "a", "r", "y">>, <<"0", "1">>>>,
    <<<<"f", "e", "b", "r", "u", "a", "r", "y">>, <<"0", "2">>>>,
    <<<<"m", "a", "r", "c", "h">>, <<"0", "3">>>>,
    <<<<"a", "p", "r", "i", "l">>, <<"0", "4">>>>,
    <<<<"m", "a", "y">>, <<"0", "5">>>>,
    <<<<"j", "u", "n", "e">>, <<"0", "6">>>>,
    <<<<"j", "u", "l", "y">>, <<"0", "7">>>>,
    <<<<"a", "u", "g", "u", "s", "t">>, <<"0", "8">>>>,
    <<<<"s", "e", "p", "t", "e", "m", "b", "e", "r">>, <<"0", "9">>>>,
    <<<<"o", "c", "t", "o", "b", "e", "r">>, <<"1", "0">>>>,
    <<<<"n", "o", "v", "e", "m", "b", "e", "r">>, <<"1", "1">>>>,
    <<<<"d", "e", "c", "e", "m", "b", "e", "r">>, <<"1", "2">>>>,
    <<<<"j", "a", "n">>, <<"0", "1">>>>,
    <<<<"f", "e", "b">>, <<"0", "2">>>>,
    <<<<"m", "a", "r">>, <<"0", "3">>>>,
    <<<<"a", "p", "r">>, <<"0", "4">>>>,
    <<<<"j", "u", "n">>, <<"0", "6">>>>,
    <<<<"j", "u", "l">>, <<"0", "7">>>>,
    <<<<"a", "u", "g">>, <<"0", "8">>>>,
    <<<<"s", "e", "p">>, <<"0", "9">>>>,
    <<<<"o", "c", "t">>, <<"1", "0">>>>,
    <<<<"n", "o", "v">>, <<"1", "1">>>>,
    <<<<"d", "e", "c">>, <<"1", "2">>>>
  >>

MonthsNl ==
  <<
    <<<<"j", "a", "n", "u", "a", "r", "i">>, <<"0", "1">>>>,
    <<<<"f", "e", "b", "r", "u", "a", "r", "i">>, <<"0", "2">>>>,
    <<<<"m", "a", "a", "r", "t">>, <<"0", "3">>>>,
    <<<<"a", "p", "r", "i", "l">>, <<"0", "4">>>>,
    <<<<"m", "e", "i">>, <<"0", "5">>>>,
    <<<<"j", "u", "n", "i">>, <<"0", "6">>>>,
    <<<<"j", "u", "l", "i">>, <<"0", "7">>>>,
    <<<<"a", "u", "g", "u", "s", "t", "u", "s">>, <<"0", "8">>>>,
    <<<<"s", "e", "p", "t", "e", "m", "b", "e", "r">>, <<"0", "9">>>>,
    <<<<"o", "k", "t", "o", "b", "e", "r">>, <<"1", "0">>>>,
    <<<<"n", "o", "v", "e", "m", "b", "e", "r">>, <<"1", "1">>>>,
    <<<<"d", "e", "c", "e", "m", "b", "e", "r">>, <<"1", "2">>>>,
    <<<<"o", "k", "t">>, <<"1", "0">>>>
  >>

MonthsFr ==
  <<
    <<<<"j", "a", "n", "v", "i", "e", "r">>, <<"0", "1">>>>,
    <<<<"f", "<e-acute>", "v", "r", "i", "e", "r">>, <<"0", "2">>>>,
    <<<<"m", "a", "r", "s">>, <<"0", "3">>>>,
    <<<<"a", "v", "r", "i", "l">>, <<"0", "4">>>>,
    <<<<"m", "a", "i">>, <<"0", "5">>>>,
    <<<<"j", "u", "i", "n">>, <<"0", "6">>>>,
    <<<<"j", "u", "i", "l", "l", "e", "t">>, <<"0", "7">>>>,
    <<<<"a", "o", "<u-circ>", "t">>, <<"0", "8">>>>,
    <<<<"s", "e", "p", "t", "e", "m", "b", "r", "e">>, <<"0", "9">>>>,
    <<<<"o", "c", "t", "o", "b", "r", "e">>, <<"1", "0">>>>,
    <<<<"n", "o", "v", "e", "m", "b", "r", "e">>, <<"1", "1">>>>,
    <<<<"d", "<e-acute>", "c", "e", "m", "b", "r", "e">>, <<"1", "2">>>>,
    <<<<"a", "o", "u", "t">>, <<"0", "8">>>>,
    <<<<"f", "e", "v", "r", "i", "e", "r">>, <<"0", "2">>>>,
    <<<<"d", "e", "c", "e", "m", "b", "r", "e">>, <<"1", "2">>>>
  >>

\* dict.update on tables kept as sequences of <<key, value>> with distinct
\* keys: a key already present keeps its position and takes the new value, a
\* new key is appended
UpdateTable(base, more) ==
    [i \in 1..Len(base) |->
        IF \E j \in 1..Len(more) : more[j][1] = base[i][1]
        THEN more[CHOOSE j \in 1..Len(more) : more[j][1] = base[i][1]]
        ELSE base[i]]
    \o SelectSeq(more, LAMBDA kv : \A i \in 1..Len(base) : base[i][1] # kv[1])

\* lines 115-117
AllMonths == UpdateTable(UpdateTable(UpdateTable(<<>>, MonthsEn), MonthsNl), MonthsFr)

\* lines 120-122: the table of the language first, every other name after it
MonthMap(language) ==
    LET own == IF language = "en" THEN MonthsEn
               ELSE IF language = "nl" THEN MonthsNl
               ELSE IF language = "fr" THEN MonthsFr
               ELSE AllMonths
    IN  UpdateTable(own, AllMonths)

\* s.replace(old, new) for texts: left to right, non-overlapping
RECURSIVE ReplaceSub(_, _, _)
ReplaceSub(s, old, new) ==
    IF s = <<>> THEN <<>>
    ELSE IF OccursAt(s, old, 1)
         THEN new \o ReplaceSub(SubSeq(s, Len(old) + 1, Len(s)), old, new)
         ELSE <<Head(s)>> \o ReplaceSub(Tail(s), old, new)

\* lines 125-128: the first month name of the table found in the text is
\* replaced by its number, and only that one
ReplaceMonth(date_str, month_map) ==
    IF \E i \in 1..Len(month_map) : Contains(date_str, month_map[i][1])
    THEN LET i == CHOOSE k \in 1..Len(month_map) :
                    /\ Contains(date_str, month_map[k][1])
                    /\ \A j \in 1..(k - 1) : ~Contains(date_str, month_map[j][1])
         IN  ReplaceSub(date_str, month_map[i][1], month_map[i][2])
    ELSE date_str

IsDateSeparator(c) == c \in {"-", "/", "."}

\* line 131: re.sub(r'[^\d\-\/\.]', ' ', s)
BlankNonDate(s) ==
    [i \in 1..Len(s) |-> IF IsDigit(s[i]) \/ IsDateSeparator(s[i]) THEN s[i] ELSE " "]

\* line 136: re.split(r'[\-\/\.\s]', s)
RECURSIVE SplitDate(_)
SplitDate(s) ==
    IF \E i \in 1..Len(s) : IsDateSeparator(s[i]) \/ IsSpace(s[i])
    THEN LET i == CHOOSE k \in 1..Len(s) :
                    /\ IsDateSeparator(s[k]) \/ IsSpace(s[k])
                    /\ \A j \in 1..(k - 1) : ~(IsDateSeparator(s[j]) \/ IsSpace(s[j]))
         IN  <<SubSeq(s, 1, i - 1)>> \o SplitDate(SubSeq(s, i + 1, Len(s)))
    ELSE <<s>>

\* the length of a four-digit year, lines 144 and 146
YearLen == 4

\* the two-digit years mapped into the 2000s, line 151
CenturyLimit == 100

\* normalize_date(date_str, language): [raises, value]; value is the ISO
\* text or NoneValue; raises = TRUE is the ValueError of int(y) at line 151,
\* which lies outside the try block of lines 154-160
normalize_date(date_str, language) ==
    LET Century(y) == IF DigitsToNat(y) < CenturyLimit THEN <<"2", "0">> \o y ELSE y
        Iso(parts) ==
            IF Len(parts) # 3 THEN [raises |-> FALSE, value |-> NoneValue]
            ELSE IF Len(parts[1]) = YearLen
            THEN [raises |-> FALSE,
                  value |-> parts[1] \o <<"-">> \o PadDigits(parts[2], 2)
                                     \o <<"-">> \o PadDigits(parts[3], 2)]
            ELSE IF Len(parts[3]) = YearLen
            THEN [raises |-> FALSE,
                  value |-> parts[3] \o <<"-">> \o PadDigits(parts[2], 2)
                                     \o <<"-">> \o PadDigits(parts[1], 2)]
            ELSE IF ~(parts[3] # <<>> /\ AllDigits(parts[3]))
            THEN [raises |-> TRUE, value |-> NoneValue]
            ELSE [raises |-> FALSE,
                  value |-> Century(parts[3]) \o <<"-">> \o PadDigits(parts[2], 2)
                                              \o <<"-">> \o PadDigits(parts[1], 2)]
    IN  IF date_str = <<>> THEN [raises |-> FALSE, value |-> NoneValue]
        ELSE Iso(SplitDate(Strip(CollapseSpaces(BlankNonDate(
                    ReplaceMonth(Strip(StrLower(date_str)), MonthMap(language)))))))


(***************************************************************************)
(* unified_parser/schemas.py: the configuration model                      *)
(***************************************************************************)
\* Optional[int] = None for a column's index and regex_group
NoIndex == -1

\* d.get(k, default) for the objects of a configuration file
DictGet(d, k, default) == IF k \in DOMAIN d THEN d[k] ELSE default

\* the fields of the dataclasses: a keyword that is none of them, or a
\* missing field without default, is a TypeError of the constructor
ColumnKeys == {"name", "index", "regex_group", "type"}

FieldKeys == {"name", "regex", "group", "type", "target"}

\* ColumnConfig(**c), lines 22-27
ColumnConfig(c) ==
    [name        |-> c["name"],
     index       |-> DictGet(c, "index", NoIndex),
     regex_group |-> DictGet(c, "regex_group", NoIndex),
     type        |-> DictGet(c, "type", "string")]

\* HeaderFieldConfig(**f), lines 10-16; the regex itself is not modelled, what
\* it captures in a document is an input of the extraction
HeaderFieldConfig(f) ==
    [name   |-> f["name"],
     group  |-> DictGet(f, "group", 1),
     type   |-> DictGet(f, "type", "string"),
     target |-> DictGet(f, "target", "metadata")]

\* FooterFieldConfig(**f), lines 42-47
FooterFieldConfig(f) ==
    [name  |-> f["name"],
     group |-> DictGet(f, "group", 1),
     type  |-> DictGet(f, "type", "number")]

WellFormedColumns(cols) ==
    \A i \in 1..Len(cols) : "name" \in DOMAIN cols[i] /\ DOMAIN cols[i] \subseteq ColumnKeys

WellFormedFields(fs) ==
    \A i \in 1..Len(fs) :
        {"name", "regex"} \subseteq DOMAIN fs[i] /\ DOMAIN fs[i] \subseteq FieldKeys

\* ParserConfig.from_dict(data), lines 61-87: [ok, config]; ok = FALSE is the
\* TypeError of a dataclass constructor.  No other check is made: a column
\* may carry an index, a regex_group, both or neither under any strategy.
from_dict(data) ==
    LET vendor_data == DictGet(data, "vendor", EmptyDict)
        table_data  == DictGet(data, "table", EmptyDict)
        hfields     == DictGet(DictGet(data, "header", EmptyDict), "fields", <<>>)
        ffields     == DictGet(DictGet(data, "footer", EmptyDict), "fields", <<>>)
        cols        == DictGet(table_data, "columns", <<>>)
        cols_alt    == DictGet(table_data, "columns_alt", <<>>)
        wellformed  ==
            /\ "name" \in DOMAIN vendor_data
            /\ DOMAIN vendor_data \subseteq {"name", "currency", "language"}
            /\ WellFormedColumns(cols) /\ WellFormedColumns(cols_alt)
            /\ WellFormedFields(hfields) /\ WellFormedFields(ffields)
    IN  IF ~wellformed THEN [ok |-> FALSE, config |-> EmptyDict]
        ELSE [ok |-> TRUE,
              config |->
                [vendor |-> [name     |-> vendor_data["name"],
                             currency |-> DictGet(vendor_data, "currency", "EUR"),
                             language |-> DictGet(vendor_data, "language", "fr")],
                 header |-> [i \in 1..Len(hfields) |-> HeaderFieldConfig(hfields[i])],
                 footer |-> [i \in 1..Len(ffields) |-> FooterFieldConfig(ffields[i])],
                 table  |->
                   [strategy        |-> DictGet(table_data, "strategy", "pdfplumber_table"),
                    start_marker    |-> DictGet(table_data, "start_marker", FALSE),
                    end_marker      |-> DictGet(table_data, "end_marker", FALSE),
                    row_pattern     |-> DictGet(table_data, "row_pattern", FALSE),
                    row_pattern_alt |-> DictGet(table_data, "row_pattern_alt", FALSE),
                    columns         |-> [i \in 1..Len(cols) |-> ColumnConfig(cols[i])],
                    columns_alt     |-> [i \in 1..Len(cols_alt) |-> ColumnConfig(cols_alt[i])],
                    header_keywords |-> DictGet(table_data, "header_keywords", <<>>),
                    min_columns     |-> DictGet(table_data, "min_columns", 0)],
                 preprocess |-> DictGet(data, "preprocess", "none")]]


(***************************************************************************)
(* engine.py: what every table strategy shares                             *)
(***************************************************************************)
\* The state the row pipeline works on while a table is read: the items
\* emitted so far (the local list of the strategy), self.pending_item,
\* self.data['totals'], and the record of the calls of _process_item: the
\* raw item handed in, whether an item came back and which, and
\* self.pending_item and self.data['totals'] before and after the call.
Feed(vendor, ps, raw) ==
    LET Fed(item, r) ==
            [items   |-> IF r.emit THEN Append(ps.items, r.item) ELSE ps.items,
             pending |-> r.pending,
             totals  |-> r.totals,
             calls   |-> Append(ps.calls, [raw |-> item, emit |-> r.emit, item |-> r.item,
                                           before |-> ps.pending, after |-> r.pending,
                                           totals_before |-> ps.totals,
                                           totals_after |-> r.totals])]
        Call(item) == Fed(item, ProcessItem(vendor, ps.pending, ps.totals, item))
    IN  Call(raw)

\* lines 654-661, 706-713, 770-777 with every column taken for a number
ColumnTextAsNumber(type, raw_value) ==
    LET Text(val) == IF RIsInteger(val) THEN PyStrInt(val.n) ELSE PyStrFloat(val)
    IN  Text(parse_number(raw_value))

\* lines 654-661, 706-713, 770-777: the text an item field takes from a raw
\* value, by the column's type
ColumnText(type, raw_value) ==
    LET Text(val) == IF RIsInteger(val) THEN PyStrInt(val.n) ELSE PyStrFloat(val)
    IN  IF type = "number" THEN Text(parse_number(raw_value))
        ELSE clean_text(raw_value)

\* _deduplicate_text, lines 847-865: of two equal neighbours one is kept
RECURSIVE DeduplicateText(_)
DeduplicateText(text) ==
    IF text = <<>> THEN <<>>
    ELSE IF Len(text) >= 2 /\ text[2] = text[1]
         THEN <<text[1]>> \o DeduplicateText(SubSeq(text, 3, Len(text)))
         ELSE <<text[1]>> \o DeduplicateText(Tail(text))

(***************************************************************************)
(* engine.py: the structured-table strategy, _extract_table_pdfplumber     *)
(***************************************************************************)
\* lines 355-358: the number of configured keywords found in the first row
HeaderMatches(keywords, first_row) ==
    Cardinality({k \in 1..Len(keywords) :
        \E c \in 1..Len(first_row) :
            Contains(StrLower(first_row[c]), StrLower(keywords[k]))})

\* the number of keyword matches that makes a first row the header, line 357
MinHeaderMatches == 2

\* the columns a continuation table may lack, line 375
ContinuationSlack == 2

\* lines 467-473, in the order of the dict
DetectKeywords ==
    <<[name |-> "sku",         kws |-> {<<"r", "e", "f", "e", "r", "e", "n", "c", "e">>, <<"r", "e", "f", "e", "r", "e", "n", "c", "i", "a">>, <<"r", "e", "f">>}],
      [name |-> "description", kws |-> {<<"d", "e", "s", "c", "r", "i", "p", "t", "i", "o", "n">>, <<"c", "o", "n", "c", "e", "p", "t", "o", "s">>, <<"d", "e", "s", "c", "r", "i", "p", "c", "i", "<o-acute>", "n">>}],
      [name |-> "quantity",    kws |-> {<<"q", "u", "a", "n", "t", "i", "t", "y">>, <<"c", "a", "n", "t", "i", "d", "a", "d">>, <<"c", "a", "n", "t">>}],
      [name |-> "unit_price",  kws |-> {<<"p", "r", "i", "c", "e">>, <<"p", "r", "e", "c", "i", "o">>}],
      [name |-> "total",       kws |-> {<<"t", "o", "t", "a", "l">>, <<"i", "m", "p", "o", "r", "t", "e">>}]>>

\* _detect_column_indices(header_row), lines 458-481: for each semantic
\* column the (0-based) index of the first header cell holding a keyword
detect_column_indices(header_row) ==
    LET hit(k, c) == ContainsAny(StrLower(header_row[c]), DetectKeywords[k].kws)
        found     == {k \in 1..Len(DetectKeywords) : \E c \in 1..Len(header_row) : hit(k, c)}
        nameOf    == [k \in found |-> DetectKeywords[k].name]
    IN  [nm \in {nameOf[k] : k \in found} |->
            LET k == CHOOSE j \in found : nameOf[j] = nm
            IN  (CHOOSE c \in 1..Len(header_row) :
                    hit(k, c) /\ \A b \in 1..(c - 1) : ~hit(k, b)) - 1]

\* a column's index is set and lies within the row
IndexInRow(col, row) == col.index # NoIndex /\ col.index < Len(row)

\* lines 396-406
ShouldSplit(columns, row) ==
    IF columns # <<>>
    THEN \E i \in 1..Len(columns) :
            /\ IndexInRow(columns[i], row)
            /\ Contains(row[columns[i].index + 1], <<"\n">>)
            /\ columns[i].type = "number"
    ELSE \E c \in 1..Len(row) : Contains(row[c], <<"\n">>)

\* the split with every single-line cell repeated in each synthetic row
SplitRowRepeating(row) ==
    LET cell_lines(c) == IF Contains(row[c], <<"\n">>) THEN SplitChar(row[c], "\n")
                         ELSE <<row[c]>>
        lens      == {IF Contains(row[c], <<"\n">>) THEN Len(cell_lines(c)) ELSE 0
                        : c \in 1..Len(row)}
        max_lines == CHOOSE m \in lens : \A k \in lens : k <= m
    IN  [i \in 1..max_lines |->
            [c \in 1..Len(row) |->
                IF ~Contains(row[c], <<"\n">>) THEN row[c]
                ELSE IF i <= Len(cell_lines(c)) THEN cell_lines(c)[i] ELSE <<>>]]

\* lines 410-426: the synthetic rows of a row with multi-line cells
SplitRow(row) ==
    LET cell_lines(c) == IF Contains(row[c], <<"\n">>) THEN SplitChar(row[c], "\n")
                         ELSE <<row[c]>>
        lens      == {IF Contains(row[c], <<"\n">>) THEN Len(cell_lines(c)) ELSE 0
                        : c \in 1..Len(row)}
        max_lines == CHOOSE m \in lens : \A k \in lens : k <= m
    IN  [i \in 1..max_lines |->
            [c \in 1..Len(row) |->
                IF i <= Len(cell_lines(c)) THEN cell_lines(c)[i] ELSE <<>>]]

\* _is_valid_row(row), lines 441-456: [raises, valid].  The index of the
\* first column named "total" is compared with len(row); when that column
\* carries no index the comparison of None with an int is a TypeError.
is_valid_row(columns, row) ==
    IF \E i \in 1..Len(columns) : columns[i].name = "total"
    THEN LET i   == CHOOSE k \in 1..Len(columns) :
                        /\ columns[k].name = "total"
                        /\ \A j \in 1..(k - 1) : columns[j].name # "total"
             idx == columns[i].index
         IN  IF idx = NoIndex THEN [raises |-> TRUE, valid |-> FALSE]
             ELSE IF idx < Len(row)
             THEN [raises |-> FALSE, valid |-> Strip(row[idx + 1]) # <<>>]
             ELSE [raises |-> FALSE, valid |-> TRUE]
    ELSE [raises |-> FALSE, valid |-> TRUE]

\* lines 762-777: the raw item of a table row, a key per column whose index
\* lies within the row (a later column of the same name overwrites)
RECURSIVE MapColumns(_, _, _, _)
MapColumns(columns, row, preprocess, item) ==
    IF columns = <<>> THEN item
    ELSE LET col  == Head(columns)
             cell == row[col.index + 1]
             raw_value == IF preprocess = "deduplicate" /\ cell # <<>>
                          THEN DeduplicateText(cell) ELSE cell
         IN  IF IndexInRow(col, row)
             THEN MapColumns(Tail(columns), row, preprocess,
                             Put(item, col.name, ColumnText(col.type, raw_value)))
             ELSE MapColumns(Tail(columns), row, preprocess, item)

\* lines 757-759
IsBlankRow(row) == \A c \in 1..Len(row) : Strip(row[c]) = <<>>

\* lines 429-432 and 434-437: one (synthetic) row through _is_valid_row,
\* _parse_table_row and _process_item.  [raises, ps]
TableRowToItem(config, ps, row) ==
    LET Checked(v) ==
            IF v.raises THEN [raises |-> TRUE, ps |-> ps]
            ELSE IF ~v.valid \/ IsBlankRow(row) THEN [raises |-> FALSE, ps |-> ps]
            ELSE [raises |-> FALSE,
                  ps |-> Feed(config.vendor.name, ps,
                              MapColumns(config.table.columns, row, config.preprocess,
                                         EmptyDict))]
    IN  Checked(is_valid_row(config.table.columns, row))

RECURSIVE TableRowsToItems(_, _, _)
TableRowsToItems(config, ps, rows) ==
    LET Rest(r) == IF r.raises THEN r ELSE TableRowsToItems(config, r.ps, Tail(rows))
    IN  IF rows = <<>> THEN [raises |-> FALSE, ps |-> ps]
        ELSE Rest(TableRowToItem(config, ps, Head(rows)))

\* lines 395-437: a data row of a processed table
ProcessTableRow(config, ps, row) ==
    IF ShouldSplit(config.table.columns, row)
    THEN TableRowsToItems(config, ps, SplitRow(row))
    ELSE TableRowToItem(config, ps, row)


(***************************************************************************)
(* engine.py: the packed rows of IO GENIX, _parse_iogenix_row              *)
(***************************************************************************)
\* line 597
IoGenixFooterWords ==
    {<<"G", "R", "O", "S", "S">>, <<"A", "M", "O", "U", "N", "T">>, <<"I", "M", "P", "O", "R", "T", "A", "N", "T">>, <<"S", "U", "P", "P", "L", "I", "E", "R">>, <<"T", "A", "X", "A", "B", "L", "E">>, <<"S", "H", "I", "P", "P", "I", "N", "G">>, <<"D", "I", "S", "C", "O", "U", "N", "T">>}

\* lines 488-492: the default (0-based) columns
IoGenixDefaults ==
    [sku |-> 0, description |-> 2, quantity |-> 7, unit_price |-> 8, total |-> 12]

\* lines 495-500
IoGenixColumn(col_indices, name) ==
    IF name \in DOMAIN col_indices THEN col_indices[name] ELSE IoGenixDefaults[name]

\* lines 517-520: the lines of a cell that are not blank
NonBlankLines(cell) == SelectSeq(SplitChar(cell, "\n"), LAMBDA s : Strip(s) # <<>>)

\* the tolerance of the match of a printed total with quantity x price,
\* lines 566 and 573: 0.05
TotalTolerance == Rat(1, 20)

\* lines 531-590: the i-th (1-based) item of a packed row, before the
\* filters; total_idx is the (0-based) position in the printed totals.
\* [item, total_idx]
IoGenixItem(row, col, i, total_idx) ==
    LET WithTotal(item, calc_total, has_cand, candidate_total, diff) ==
            LET accept   == /\ has_cand
                            /\ \/ RLess(diff, TotalTolerance)
                               \/ calc_total = RZero /\ RLess(RZero, candidate_total)
                mismatch == /\ has_cand /\ ~accept
                            /\ RLess(TotalTolerance, diff) /\ RLess(RZero, calc_total)
            IN  [item |->
                    IF accept THEN Put(item, "total", PyStrFloat(candidate_total))
                    ELSE IF mismatch THEN Put(item, "total", Fmt2f(calc_total))
                    ELSE IF RLess(RZero, calc_total)
                    THEN Put(item, "total", Fmt2f(calc_total))
                    ELSE item,
                 total_idx |-> IF accept THEN total_idx + 1 ELSE total_idx]
        Matched(item, calc_total, has_cand, candidate_total) ==
            WithTotal(item, calc_total, has_cand, candidate_total,
                      RAbs(RSub(candidate_total, calc_total)))
        Priced(item, qty, price, valid_totals) ==
            Matched(item, RMul(qty, price), total_idx < Len(valid_totals),
                    IF total_idx < Len(valid_totals)
                    THEN parse_number(valid_totals[total_idx + 1]) ELSE RZero)
        WithPrice(item, qty, has_price, price) ==
            Priced(IF has_price THEN Put(item, "unit_price", PyStrFloat(price)) ELSE item,
                   qty, price, NonBlankLines(row[col.total + 1]))
        Counted(item, qty, valid_prices) ==
            WithPrice(item, qty, i <= Len(valid_prices),
                      IF i <= Len(valid_prices) THEN parse_number(valid_prices[i])
                      ELSE RZero)
        WithQuantity(item, has_qty, qty) ==
            Counted(IF has_qty THEN Put(item, "quantity", PyStrFloat(qty)) ELSE item,
                    qty, NonBlankLines(row[col.unit_price + 1]))
        Named(item, valid_quantities) ==
            WithQuantity(item, i <= Len(valid_quantities),
                         IF i <= Len(valid_quantities)
                         THEN parse_number(valid_quantities[i]) ELSE RZero)
    IN  Named([sku |-> Strip(NonBlankLines(row[col.sku + 1])[i]),
               description |-> IF i = 1 THEN clean_text(row[col.description + 1])
                               ELSE <<>>],
              NonBlankLines(row[col.quantity + 1]))

\* lines 593-601: the rows the parser itself takes for footer rows
IoGenixFiltered(item) ==
    LET sku == item["sku"]
        sku_clean == RemoveChar(RemoveChar(sku, "."), ",")
    IN  \/ /\ sku_clean # <<>> /\ AllDigits(sku_clean) /\ Len(sku) > 5
           /\ Contains(sku, <<",">>) /\ Contains(sku, <<".">>)
        \/ ContainsAny(StrUpper(sku), IoGenixFooterWords)

\* line 389: the key under which an item counts as seen
ItemKey(item) ==
    [k \in {"sku", "quantity", "total", "unit_price", "description"} |->
        IF HasKey(item, k) THEN item[k] ELSE NoneValue]

\* lines 386-391 with line 603: an item of a packed row through
\* _process_item; it is appended unless an item of the same key was seen
\* (seen_items holds the keys of the items appended so far)
FeedUnique(vendor, ps, raw) ==
    LET Seen(item) == \E j \in 1..Len(ps.items) : ItemKey(ps.items[j]) = ItemKey(item)
        Fed(item, r) ==
            [items   |-> IF r.emit /\ ~Seen(r.item) THEN Append(ps.items, r.item)
                         ELSE ps.items,
             pending |-> r.pending,
             totals  |-> r.totals,
             calls   |-> Append(ps.calls, [raw |-> item, emit |-> r.emit, item |-> r.item,
                                           before |-> ps.pending, after |-> r.pending,
                                           totals_before |-> ps.totals,
                                           totals_after |-> r.totals])]
        Call(item) == Fed(item, ProcessItem(vendor, ps.pending, ps.totals, item))
    IN  Call(raw)

RECURSIVE IoGenixItems(_, _, _, _, _, _)
IoGenixItems(vendor, ps, row, col, i, total_idx) ==
    LET Step(it) ==
            IoGenixItems(vendor,
                         IF IoGenixFiltered(it.item) THEN ps
                         ELSE FeedUnique(vendor, ps, it.item),
                         row, col, i + 1, it.total_idx)
    IN  IF i > Len(NonBlankLines(row[col.sku + 1])) THEN ps
        ELSE Step(IoGenixItem(row, col, i, total_idx))

\* _parse_iogenix_row(row, col_indices), lines 483-607, with the loop of
\* lines 387-391: [raises, ps].  A row that reaches the total column and
\* not another of the five columns is read past its end (IndexError).
parse_iogenix_row(vendor, ps, row, col_indices) ==
    LET Parse(col) ==
            IF Len(row) <= col.total THEN [raises |-> FALSE, ps |-> ps]
            ELSE IF \E k \in DOMAIN col : Len(row) <= col[k]
            THEN [raises |-> TRUE, ps |-> ps]
            ELSE [raises |-> FALSE, ps |-> IoGenixItems(vendor, ps, row, col, 1, 0)]
    IN  Parse([k \in DOMAIN IoGenixDefaults |-> IoGenixColumn(col_indices, k)])


(***************************************************************************)
(* engine.py: the regex strategies                                         *)
(*                                                                         *)
(* The patterns are configuration data and the regex engine is a library:  *)
(* what a pattern captures in a line or block is an input.  A match is a   *)
(* dict from group number to the captured text, NoneValue for a group that *)
(* took no part in the match; a group number outside the dict is a group   *)
(* the pattern does not have (IndexError).                                 *)
(***************************************************************************)
\* lines 646-663 (skip_none, the line strategy: a group that took no part is
\* skipped) and lines 701-715, 727-741 (the block strategy: it is not, and
\* parse_number(None) is 0.0, clean_text(None) is "")
RECURSIVE GroupsToItem(_, _, _, _)
GroupsToItem(columns, groups, skip_none, item) ==
    IF columns = <<>> THEN item
    ELSE LET col  == Head(columns)
             rest == Tail(columns)
         IN  IF col.regex_group = NoIndex \/ col.regex_group \notin DOMAIN groups
             THEN GroupsToItem(rest, groups, skip_none, item)
             ELSE LET raw_value == groups[col.regex_group]
                  IN  IF raw_value = NoneValue
                      THEN IF skip_none
                           THEN GroupsToItem(rest, groups, skip_none, item)
                           ELSE GroupsToItem(rest, groups, skip_none,
                                    Put(item, col.name, ColumnText(col.type, <<>>)))
                      ELSE GroupsToItem(rest, groups, skip_none,
                                    Put(item, col.name, ColumnText(col.type, raw_value)))

\* items[-1]['sku'] = fid, line 638
SetLastSku(items, fid) ==
    [i \in 1..Len(items) |-> IF i = Len(items) THEN Put(items[i], "sku", fid) ELSE items[i]]

\* One turn of the loop of _extract_table_regex, lines 621-668.  A line is
\* [start, end, fid, row]: whether the start and the end marker match it,
\* the digits of 'FID:\s*(\d+)' (empty for no match) and the match of the row
\* pattern (matched, groups).  st is [ps, in_table].
RegexLine(config, st, line) ==
    IF config.table.start_marker /\ line.start
    THEN [ps |-> st.ps, in_table |-> TRUE]
    ELSE IF config.table.end_marker /\ line.end
    THEN [ps |-> st.ps, in_table |-> FALSE]
    ELSE IF ~(st.in_table \/ ~config.table.start_marker) THEN st
    ELSE IF line.fid # <<>> /\ st.ps.items # <<>>
    THEN [ps |-> [st.ps EXCEPT !.items = SetLastSku(st.ps.items, line.fid)],
          in_table |-> st.in_table]
    ELSE IF line.row.matched
    THEN [ps |-> Feed(config.vendor.name, st.ps,
                      GroupsToItem(config.table.columns, line.row.groups, TRUE, EmptyDict)),
          in_table |-> st.in_table]
    ELSE st

\* One match of the primary pattern (lines 699-719) or of the alternate
\* pattern (lines 725-745) of _extract_table_regex_multiline
BlockMatch(config, ps, alt, groups) ==
    Feed(config.vendor.name, ps,
         GroupsToItem(IF alt THEN config.table.columns_alt ELSE config.table.columns,
                      groups, FALSE, EmptyDict))


(***************************************************************************)
(* engine.py: header and footer fields                                     *)
(*                                                                         *)
(* What the field patterns capture in a document is an input: a dict from  *)
(* field name to the text of the configured group, NoneValue when the      *)
(* pattern matched and that group took no part; no key when the pattern    *)
(* did not match or has no such group.                                     *)
(***************************************************************************)
\* extract_regex_match, utils.py lines 75-83: [raises, found, value].  Only
\* IndexError is caught: .strip() on a group that took no part raises
\* AttributeError.
extract_regex_match(caps, name) ==
    IF name \notin DOMAIN caps THEN [raises |-> FALSE, found |-> FALSE, value |-> <<>>]
    ELSE IF caps[name] = NoneValue THEN [raises |-> TRUE, found |-> FALSE, value |-> <<>>]
    ELSE [raises |-> FALSE, found |-> Strip(caps[name]) # <<>>, value |-> Strip(caps[name])]

\* the namespaces of self.data that are dicts, lines 14-24
Namespaces == {"vendor", "customer", "totals", "metadata"}

\* _extract_header, lines 316-326: [raises, data].  A target that is no key
\* of self.data falls back to metadata; the target order_items is a list, and
\* the item assignment on it a TypeError.
RECURSIVE extract_header(_, _, _, _)
extract_header(fields, language, caps, data) ==
    LET Dated(field, target, nd) ==
            IF nd.raises THEN [raises |-> TRUE, data |-> data]
            ELSE extract_header(Tail(fields), language, caps,
                                [data EXCEPT ![target] = Put(@, field.name, nd.value)])
        Matched(field, target, m) ==
            IF m.raises THEN [raises |-> TRUE, data |-> data]
            ELSE IF ~m.found THEN extract_header(Tail(fields), language, caps, data)
            ELSE IF field.target = "order_items"
            THEN [raises |-> TRUE, data |-> data]
            ELSE IF field.type = "date"
            THEN Dated(field, target, normalize_date(m.value, language))
            ELSE extract_header(Tail(fields), language, caps,
                                [data EXCEPT ![target] = Put(@, field.name, m.value)])
        Field(field) ==
            Matched(field,
                    IF field.target \in Namespaces THEN field.target ELSE "metadata",
                    extract_regex_match(caps, field.name))
    IN  IF fields = <<>> THEN [raises |-> FALSE, data |-> data]
        ELSE Field(Head(fields))

\* _extract_footer, lines 781-789: [raises, totals]
RECURSIVE extract_footer(_, _, _)
extract_footer(fields, caps, totals) ==
    LET Matched(field, m) ==
            IF m.raises THEN [raises |-> TRUE, totals |-> totals]
            ELSE IF ~m.found THEN extract_footer(Tail(fields), caps, totals)
            ELSE IF field.type = "number"
            THEN extract_footer(Tail(fields), caps,
                     Put(totals, field.name, PyStrFloat(parse_number(m.value))))
            ELSE extract_footer(Tail(fields), caps, Put(totals, field.name, m.value))
        Field(field) == Matched(field, extract_regex_match(caps, field.name))
    IN  IF fields = <<>> THEN [raises |-> FALSE, totals |-> totals]
        ELSE Field(Head(fields))


(***************************************************************************)
(* engine.py: the totals reconciler                                        *)
(***************************************************************************)
\* lines 794-800: [raises, sum]; float() of a text that is no number raises
\* ValueError, which nothing catches
RECURSIVE SumItems(_, _)
SumItems(items, acc) ==
    LET Total(tot) ==
            IF tot.ok THEN SumItems(Tail(items), RAdd(acc, tot.val))
            ELSE [raises |-> TRUE, sum |-> acc]
        Product(qty, price) ==
            IF qty.ok /\ price.ok
            THEN SumItems(Tail(items), RAdd(acc, RMul(qty.val, price.val)))
            ELSE [raises |-> TRUE, sum |-> acc]
        Item(item) ==
            IF Truthy(item, "total") THEN Total(PyFloat(item["total"]))
            ELSE IF Truthy(item, "quantity") /\ Truthy(item, "unit_price")
            THEN Product(PyFloat(item["quantity"]), PyFloat(item["unit_price"]))
            ELSE SumItems(Tail(items), acc)
    IN  IF items = <<>> THEN [raises |-> FALSE, sum |-> acc]
        ELSE Item(Head(items))

\* _calculate_fallbacks without the test of order_items of line 793
calculate_fallbacks_unguarded(order_items, totals) ==
    LET Summed(s) ==
            IF s.raises THEN [raises |-> TRUE, totals |-> totals]
            ELSE [raises |-> FALSE, totals |-> Put(totals, "subtotal", Fmt2f(s.sum))]
    IN  IF ~Truthy(totals, "subtotal")
        THEN Summed(SumItems(order_items, RZero))
        ELSE [raises |-> FALSE, totals |-> totals]

\* the fallback with the items summed onto the subtotal that is there
calculate_fallbacks_accumulating(order_items, totals) ==
    LET Summed(s) ==
            IF s.raises THEN [raises |-> TRUE, totals |-> totals]
            ELSE [raises |-> FALSE, totals |-> Put(totals, "subtotal", Fmt2f(s.sum))]
    IN  IF order_items # <<>>
        THEN Summed(SumItems(order_items, FloatOrZero(totals, "subtotal").val))
        ELSE [raises |-> FALSE, totals |-> totals]

\* _calculate_fallbacks, lines 791-802: [raises, totals]
calculate_fallbacks(order_items, totals) ==
    LET Summed(s) ==
            IF s.raises THEN [raises |-> TRUE, totals |-> totals]
            ELSE [raises |-> FALSE, totals |-> Put(totals, "subtotal", Fmt2f(s.sum))]
    IN  IF ~Truthy(totals, "subtotal") /\ order_items # <<>>
        THEN Summed(SumItems(order_items, RZero))
        ELSE [raises |-> FALSE, totals |-> totals]

\* lines 823-826 and 832-835
DiscountText(x) == IF RIsInteger(x) THEN PyStrInt(x.n) ELSE Fmt2f(x)

\* lines 819-837: one item under the discount; a ValueError of float() ends
\* the item where it stands
DiscountItem(item, factor) ==
    LET Total(item1, tot) ==
            IF ~tot.ok THEN item1
            ELSE Put(item1, "total", DiscountText(RMul(tot.val, factor)))
        Price(price) ==
            IF ~price.ok THEN item
            ELSE IF ~Truthy(item, "total")
            THEN Put(item, "unit_price", DiscountText(RMul(price.val, factor)))
            ELSE Total(Put(item, "unit_price", DiscountText(RMul(price.val, factor))),
                       PyFloat(item["total"]))
    IN  IF ~Truthy(item, "unit_price") THEN item
        ELSE Price(PyFloat(item["unit_price"]))

\* _apply_global_discount, lines 804-842: [raises, order_items, totals].
\* Line 842 reads the name subtotal, which the method never binds: when both
\* amounts are present and totals.total is not, it ends in a NameError.
apply_global_discount(order_items, totals) ==
    LET Discounted(factor) ==
            [i \in 1..Len(order_items) |-> DiscountItem(order_items[i], factor)]
        Amounts(gross, discount) ==
            [raises      |-> ~Truthy(totals, "total"),
             order_items |->
                IF /\ gross.ok /\ discount.ok
                   /\ RLess(RZero, gross.val) /\ RLess(RZero, discount.val)
                THEN Discounted(RSub(RInt(1), RDiv(discount.val, gross.val)))
                ELSE order_items,
             totals      |-> totals]
    IN  IF Truthy(totals, "gross_amount") /\ Truthy(totals, "discount_amount")
        THEN Amounts(PyFloat(totals["gross_amount"]), PyFloat(totals["discount_amount"]))
        ELSE [raises |-> FALSE, order_items |-> order_items, totals |-> totals]


(***************************************************************************)
(* engine.py: the vendor adjustments                                       *)
(***************************************************************************)
\* lines 249-270: the item above a negative adjustment, after the merge
MergeAdjustment(current_item, next_total) ==
    LET Priced(item, new_total, qty) ==
            IF qty.ok /\ qty.val # RZero
            THEN Put(item, "unit_price", Fmt2f(RDiv(new_total, qty.val)))
            ELSE item
        Totalled(new_total) ==
            Priced(Put(current_item, "total", Fmt2f(new_total)), new_total,
                   FloatOrZero(current_item, "quantity"))
    IN  Totalled(RAdd(FloatOrZero(current_item, "total").val, next_total))

\* lines 235-276: the loop over the items from position i
RECURSIVE MergeNegativeItems(_, _)
MergeNegativeItems(items, i) ==
    LET Pair(current_total, next_total) ==
            IF next_total.ok /\ RLess(next_total.val, RZero) /\ current_total.ok
            THEN <<MergeAdjustment(items[i], next_total.val)>>
                 \o MergeNegativeItems(items, i + 2)
            ELSE <<items[i]>> \o MergeNegativeItems(items, i + 1)
    IN  IF i > Len(items) THEN <<>>
        ELSE IF i + 1 <= Len(items)
        THEN Pair(FloatOrZero(items[i], "total"), FloatOrZero(items[i + 1], "total"))
        ELSE <<items[i]>> \o MergeNegativeItems(items, i + 1)

\* _apply_lifepro_logic, lines 221-278
apply_lifepro_logic(vendor, order_items) ==
    IF StrLower(vendor) # <<"l", "i", "f", "e", " ", "p", "r", "o">> THEN order_items
    ELSE IF order_items = <<>> THEN order_items
    ELSE MergeNegativeItems(order_items, 1)


(***************************************************************************)
(* The inputs: configuration files and documents                           *)
(***************************************************************************)
\* The most rows, lines or matches a document's table section is read for.
MaxRows == 3

HeaderFieldsData ==
    <<[name |-> "invoice_number", regex |-> "re"],
      [name |-> "invoice_date", regex |-> "re", type |-> "date"]>>

FooterFieldsData ==
    <<[name |-> "subtotal", regex |-> "re"],
      [name |-> "total", regex |-> "re"],
      [name |-> "gross_amount", regex |-> "re"],
      [name |-> "discount_amount", regex |-> "re"],
      [name |-> "shipping_fee", regex |-> "re"]>>

HeaderKeywordsData == <<<<"d", "e", "s", "c", "r", "i", "p", "t", "i", "o", "n">>, <<"q", "t", "y">>, <<"p", "r", "i", "c", "e">>, <<"t", "o", "t", "a", "l">>>>

PackedKeywordsData == <<<<"r", "e", "f", "e", "r", "e", "n", "c", "e">>, <<"d", "e", "s", "c", "r", "i", "p", "t", "i", "o", "n">>, <<"q", "u", "a", "n", "t", "i", "t", "y">>, <<"t", "o", "t", "a", "l">>>>

\* columns bound by position, the numeric ones typed "number"
IndexColumnsTyped ==
    <<[name |-> "description", index |-> 0, type |-> "string"],
      [name |-> "quantity", index |-> 1, type |-> "number"],
      [name |-> "unit_price", index |-> 2, type |-> "number"],
      [name |-> "total", index |-> 3, type |-> "number"]>>

\* columns bound by position, every type left to its default ("string")
IndexColumnsText ==
    <<[name |-> "description", index |-> 0],
      [name |-> "quantity", index |-> 1],
      [name |-> "unit_price", index |-> 2],
      [name |-> "total", index |-> 3]>>

\* columns bound by capture group
GroupColumns ==
    <<[name |-> "sku", regex_group |-> 1],
      [name |-> "description", regex_group |-> 2],
      [name |-> "quantity", regex_group |-> 3, type |-> "number"],
      [name |-> "unit_price", regex_group |-> 4, type |-> "number"],
      [name |-> "total", regex_group |-> 5, type |-> "number"]>>

\* columns bound by position, the first one the position of the row in the
\* invoice (the Buchsteiner layout) and none a description
PositionColumns ==
    <<[name |-> "position", index |-> 0, type |-> "string"],
      [name |-> "quantity", index |-> 1, type |-> "number"],
      [name |-> "unit_price", index |-> 2, type |-> "number"],
      [name |-> "total", index |-> 3, type |-> "number"]>>

GroupColumnsAlt ==
    <<[name |-> "description", regex_group |-> 1],
      [name |-> "quantity", regex_group |-> 2, type |-> "number"],
      [name |-> "unit_price", regex_group |-> 3, type |-> "number"]>>

ConfigFile(vendor_name, table) ==
    [vendor |-> [name |-> vendor_name, currency |-> "EUR", language |-> "en"],
     header |-> [fields |-> HeaderFieldsData],
     table  |-> table,
     footer |-> [fields |-> FooterFieldsData]]

ConfigFiles ==
    { \* structured table, header keywords, typed columns
      ConfigFile(VendorGeneric,
        [strategy |-> "pdfplumber_table", header_keywords |-> HeaderKeywordsData,
         columns |-> IndexColumnsTyped]),
      \* structured table, header keywords, text columns
      ConfigFile(VendorGeneric,
        [strategy |-> "pdfplumber_table", header_keywords |-> HeaderKeywordsData,
         columns |-> IndexColumnsText]),
      \* structured table, header keywords and no columns
      ConfigFile(VendorGeneric,
        [strategy |-> "pdfplumber_table", header_keywords |-> HeaderKeywordsData]),
      \* structured table whose columns carry capture groups
      ConfigFile(VendorGeneric,
        [strategy |-> "pdfplumber_table", header_keywords |-> HeaderKeywordsData,
         columns |-> GroupColumns]),
      \* structured table whose rows are identified by their position
      ConfigFile(VendorGeneric,
        [strategy |-> "pdfplumber_table", header_keywords |-> HeaderKeywordsData,
         columns |-> PositionColumns]),
      \* line regex
      ConfigFile(VendorShakerStore,
        [strategy |-> "text_regex", row_pattern |-> TRUE, start_marker |-> TRUE,
         end_marker |-> TRUE, columns |-> GroupColumns]),
      ConfigFile(VendorGeneric,
        [strategy |-> "text_regex", row_pattern |-> TRUE, columns |-> GroupColumns]),
      \* line regex whose columns carry positional indices
      ConfigFile(VendorGeneric,
        [strategy |-> "text_regex", row_pattern |-> TRUE, columns |-> IndexColumnsTyped]),
      \* block regex with an alternate pattern
      ConfigFile(VendorYamamoto,
        [strategy |-> "text_regex_multiline", row_pattern |-> TRUE,
         row_pattern_alt |-> TRUE, columns |-> GroupColumns,
         columns_alt |-> GroupColumnsAlt]),
      \* packed rows
      ConfigFile(VendorIoGenix,
        [strategy |-> "pdfplumber_table", header_keywords |-> PackedKeywordsData,
         columns |-> IndexColumnsTyped]),
      \* a column with a field ColumnConfig does not have
      ConfigFile(VendorGeneric,
        [strategy |-> "text_regex", row_pattern |-> TRUE,
         columns |-> <<[name |-> "sku", group |-> 1]>>]) }

\* what the header patterns capture in a document
HeaderTexts ==
    { [invoice_number |-> <<"I", "N", "V", "1">>, invoice_date |-> <<"3", "0", ".", "1", "0", ".", "2", "0", "2", "4">>],
      [invoice_number |-> <<"I", "N", "V", "1">>],
      [invoice_number |-> <<"I", "N", "V", "1">>, invoice_date |-> <<"1", ".", "2", ".">>],
      [invoice_number |-> NoneValue, invoice_date |-> <<"3", "0", ".", "1", "0", ".", "2", "0", "2", "4">>] }

\* what the footer patterns capture in a document
FooterTexts ==
    { EmptyDict,
      [subtotal |-> <<"3", "5", ".", "0", "0">>, total |-> <<"4", "2", ".", "0", "0">>],
      [gross_amount |-> <<"1", "0", "0", ".", "0", "0">>, discount_amount |-> <<"5", "0", ".", "0", "0">>, total |-> <<"4", "2", ".", "0", "0">>],
      [gross_amount |-> <<"1", "0", "0", ".", "0", "0">>, discount_amount |-> <<"5", "0", ".", "0", "0">>],
      [shipping_fee |-> <<"7", ".", "0", "0">>] }

\* the rows of the detected tables of a document
CellRows ==
    { <<<<"D", "e", "s", "c", "r", "i", "p", "t", "i", "o", "n">>, <<"Q", "t", "y">>, <<"P", "r", "i", "c", "e">>, <<"T", "o", "t", "a", "l">>>>,
      <<<<"W", "i", "d", "g", "e", "t">>, <<"3">>, <<"1", "0", ".", "0", "0">>, <<"3", "0", ".", "0", "0">>>>,
      <<<<"S", "h", "i", "p", "p", "i", "n", "g">>, <<"1">>, <<"1", "2", ".", "5", "0">>, <<"1", "2", ".", "5", "0">>>>,
      <<<<"D", "e", "l", "i", "v", "e", "r", "y">>, <<"1">>, <<"2", ".", "5", "0">>, <<"2", ".", "5", "0">>>>,
      <<<<"B", "a", "r">>, <<"1">>, <<"2", ",", "5", "0">>, <<"2", ",", "5", "0">>>>,
      <<<<"G", "a", "d", "g", "e", "t">>, <<"2">>, <<"5", ".", "0", "0">>, <<>>>> }

\* the rows of the detected tables of a document of packed rows
PackedRows ==
    { <<<<"R", "e", "f", "e", "r", "e", "n", "c", "e">>, <<"D", "e", "s", "c", "r", "i", "p", "t", "i", "o", "n">>, <<"Q", "u", "a", "n", "t", "i", "t", "y">>, <<"P", "r", "i", "c", "e">>, <<"T", "o", "t", "a", "l">>>>,
      <<<<"I", "G", "1">>, <<"W", "h", "e", "y">>, <<"2">>, <<"5", ".", "0", "0">>, <<"1", "0", ".", "0", "0">>>>,
      <<<<"I", "G", "1", "\n", "I", "G", "2">>, <<"W", "h", "e", "y", "\n", "B", "a", "r">>, <<"2", "\n", "1">>, <<"5", ".", "0", "0", "\n", "2", ".", "5", "0">>, <<"1", "0", ".", "0", "0", "\n", "2", ".", "5", "0">>>>,
      <<<<"D", "E", "L", "I", "V", "E", "R", "Y">>, <<"C", "o", "u", "r", "i", "e", "r">>, <<"1">>, <<"1", "2", ".", "5", "0">>, <<"1", "2", ".", "5", "0">>>>,
      <<<<"S", "H", "I", "P", "P", "I", "N", "G">>, <<>>, <<>>, <<>>, <<"1", "2", ".", "5", "0">>>> }


\* the rows a document of the vendor is made of
RowsOf(vendor) == IF vendor = VendorIoGenix THEN PackedRows ELSE CellRows

\* what the row pattern captures in the lines or the block of a document
RowMatches ==
    { \* identity data only
      [g \in {1, 2, 3, 4, 5} |->
          CASE g = 1 -> <<"A">> [] g = 2 -> <<"W", "i", "d", "g", "e", "t">> [] OTHER -> NoneValue],
      \* priced data only
      [g \in {1, 2, 3, 4, 5} |->
          CASE g = 3 -> <<"2">> [] g = 4 -> <<"5", ".", "0", "0">> [] g = 5 -> <<"1", "0", ".", "0", "0">> [] OTHER -> NoneValue],
      \* priced data, the identity groups matched and empty
      [g \in {1, 2, 3, 4, 5} |->
          CASE g = 3 -> <<"2">> [] g = 4 -> <<"5", ".", "0", "0">> [] g = 5 -> <<"1", "0", ".", "0", "0">> [] OTHER -> <<>>],
      \* identity and priced data
      [g \in {1, 2, 3, 4, 5} |->
          CASE g = 1 -> <<"B">> [] g = 2 -> <<"G", "a", "d", "g", "e", "t">> [] g = 3 -> <<"1">>
            [] g = 4 -> <<"3", "0", ".", "0", "0">> [] OTHER -> <<"3", "0", ".", "0", "0">>],
      \* a freight row
      [g \in {1, 2, 3, 4, 5} |->
          CASE g = 1 -> <<"S", "H", "I", "P", "P", "I", "N", "G">> [] g = 5 -> <<"1", "2", ".", "5", "0">> [] OTHER -> NoneValue],
      \* the identity line of a freight row
      [g \in {1, 2, 3, 4, 5} |->
          CASE g = 1 -> <<"D", "e", "l", "i", "v", "e", "r", "y">> [] g = 2 -> <<"C", "o", "u", "r", "i", "e", "r">> [] OTHER -> NoneValue] }

NoRowMatch == [matched |-> FALSE, groups |-> EmptyDict]

\* the lines of a document as the line strategy sees them
Lines ==
    { [start |-> FALSE, end |-> FALSE, fid |-> <<>>, row |-> [matched |-> TRUE, groups |-> g]]
        : g \in RowMatches }
    \cup
    { [start |-> TRUE, end |-> FALSE, fid |-> <<>>, row |-> NoRowMatch],
      [start |-> FALSE, end |-> TRUE, fid |-> <<>>, row |-> NoRowMatch],
      [start |-> FALSE, end |-> FALSE, fid |-> <<"7">>, row |-> NoRowMatch] }


(***************************************************************************)
(* The parser as a state machine                                           *)
(*                                                                         *)
(* main.py loads a configuration file, constructs UnifiedInvoiceParser and *)
(* calls extract(); extract() runs its stages in the order of lines 28-72. *)
(* pc is the position in that run, "raised" the state in which extract()   *)
(* has re-raised an exception (line 70) and "done" the one in which it has *)
(* returned self.data.                                                     *)
(***************************************************************************)
VARIABLES
    cfg,                 \* self.config
    pc,                  \* the position of the run
    data,                \* self.data
    pending_item,        \* self.pending_item
    items,               \* the local list of items of the table strategy
    in_table,            \* the flag of the line strategy
    current_col_indices, \* the auto-detected columns of the structured strategy
    processing,          \* the table at hand passed the checks of its first row
    alt_phase,           \* the block strategy is at the alternate pattern
    rows_read,           \* the rows, lines or matches read so far
    row_read,            \* the row, line or match the table strategy is at
    calls,               \* the calls of _process_item, in order
    stages               \* the stages of extract() completed, in order

\* InvoiceValidator (validator_logic.py), an object of its own: extract() and
\* main() never construct it
VARIABLES
    v_pc,                \* the position of validate()
    v_data,              \* InvoiceValidator.data
    errors,              \* InvoiceValidator.errors
    warnings             \* InvoiceValidator.warnings

\* A second UnifiedInvoiceParser constructed on the same ParserConfig object,
\* at rest between two of its steps while the first one runs: the record of
\* its own attributes and locals, or {} when there is none.
VARIABLES
    other

\* A call of one of the pure functions of utils.py
VARIABLES
    fn_pc,               \* "none", "called" or "returned"
    fn_arg,              \* the arguments of the call
    fn_ret               \* what the call returned or raised

\* The text between the table markers that _extract_table_regex_multiline
\* scans (engine.py lines 674-688), as the rows that stand in it from top to
\* bottom, each with the pattern that matches it; <<>> when no text is held.
VARIABLES
    text

\* the state of what stands beside one run of the parser
aux == <<v_pc, v_data, errors, warnings, other, fn_pc, fn_arg, fn_ret, text>>

vars == <<cfg, pc, data, pending_item, items, in_table, current_col_indices,
          processing, alt_phase, rows_read, row_read, calls, stages, aux>>

tablevars == <<items, in_table, current_col_indices, processing, alt_phase,
               rows_read, row_read, calls, pending_item>>

\* no validator has been constructed
NoValidator ==
    /\ v_pc = "none"
    /\ v_data = EmptyDict
    /\ errors = <<>>
    /\ warnings = <<>>

\* there is no second parser
NoOther == other = EmptyDict

\* no table text is held
NoText == text = <<>>

\* no pure function is being called
NoCall ==
    /\ fn_pc = "none"
    /\ fn_arg = <<>>
    /\ fn_ret = <<>>

\* main() before the configuration is loaded
ParserAtStart ==
    /\ cfg = EmptyDict
    /\ pc = "start"
    /\ data = EmptyDict
    /\ pending_item = EmptyDict
    /\ items = <<>>
    /\ in_table = FALSE
    /\ current_col_indices = EmptyDict
    /\ processing = FALSE
    /\ alt_phase = FALSE
    /\ rows_read = 0
    /\ row_read = <<>>
    /\ calls = <<>>
    /\ stages = <<>>

Init == ParserAtStart /\ NoValidator /\ NoOther /\ NoCall /\ NoText

\* main.py lines 8-11 and 22: the file is read and handed to from_dict
LoadConfig(file) ==
    /\ pc = "start"
    /\ \E r \in {from_dict(file)} :
         /\ cfg' = r.config
         /\ pc' = IF r.ok THEN "loaded" ELSE "config_error"
    /\ UNCHANGED <<aux, data, tablevars, stages>>

\* UnifiedInvoiceParser.__init__, lines 11-26
Construct ==
    /\ pc = "loaded"
    /\ data' = [vendor      |-> [name     |-> cfg.vendor.name,
                                 currency |-> cfg.vendor.currency,
                                 language |-> cfg.vendor.language],
                customer    |-> EmptyDict,
                order_items |-> <<>>,
                totals      |-> EmptyDict,
                metadata    |-> EmptyDict]
    /\ pending_item' = EmptyDict
    /\ pc' = "constructed"
    /\ UNCHANGED <<aux, cfg, items, in_table, current_col_indices, processing, alt_phase,
                   rows_read, row_read, calls, stages>>

\* lines 30-37: the document is opened and its text read; a file that cannot
\* be opened is an exception of the library
OpenDocument ==
    /\ pc = "constructed"
    /\ \E opened \in BOOLEAN : pc' = IF opened THEN "header" ELSE "raised"
    /\ UNCHANGED <<aux, cfg, data, tablevars, stages>>

\* line 39, _extract_header
ExtractHeader(caps) ==
    /\ pc = "header"
    /\ \E r \in {extract_header(cfg.header, cfg.vendor.language, caps, data)} :
         /\ data' = r.data
         /\ pc' = IF r.raises THEN "raised" ELSE "table"
         /\ stages' = IF r.raises THEN stages ELSE Append(stages, "header")
    /\ UNCHANGED <<aux, cfg, tablevars>>

\* the state the row pipeline works on, the pending cache being one object
\* for every parser (the cache of the parser at rest when there is one)
PipelineStateSharedPending ==
    [items |-> items,
     pending |-> IF other # EmptyDict THEN other.pending_item ELSE pending_item,
     totals |-> data.totals, calls |-> calls]

\* the state the row pipeline works on
PipelineState ==
    [items |-> items, pending |-> pending_item, totals |-> data.totals, calls |-> calls]

\* the row pipeline's state written back
SetPipeline(ps) ==
    /\ items' = ps.items
    /\ pending_item' = ps.pending
    /\ data' = [data EXCEPT !.totals = ps.totals]
    /\ calls' = ps.calls

\* lines 342-393: what the first row of a table decides.  [skip, header,
\* process]: the table is below min_columns; the row is the header; the
\* table's rows are processed
FirstRow(config, got_items, first_row) ==
    LET kws     == config.table.header_keywords
        min     == config.table.min_columns
        header  == kws # <<>> /\ HeaderMatches(kws, first_row) >= MinHeaderMatches
        process == IF kws = <<>> THEN TRUE
                   ELSE IF header THEN TRUE
                   ELSE IF got_items
                   THEN Len(first_row) >= Len(config.table.columns) - ContinuationSlack
                   ELSE FALSE
    IN  IF min > 0 /\ Len(first_row) < min
        THEN [skip |-> TRUE, header |-> FALSE, process |-> FALSE]
        ELSE [skip |-> FALSE, header |-> header, process |-> process]

\* One row of a detected table under _extract_table_pdfplumber, lines
\* 333-437.  The first row read is the first row of a table, and so is every
\* header row; another row belongs to the table of the row before it.
TableRow(row) ==
    /\ pc = "table" /\ cfg.table.strategy = "pdfplumber_table"
    /\ rows_read < MaxRows
    /\ \E f \in {FirstRow(cfg, items # <<>>, row)} :
         \E first \in {rows_read = 0 \/ f.header} :
         \E detect \in {IF first /\ f.header THEN detect_column_indices(row)
                        ELSE current_col_indices} :
         \E r \in {IF ~(IF first THEN f.process /\ ~f.header ELSE processing)
                   THEN [raises |-> FALSE, ps |-> PipelineState]
                   ELSE IF cfg.vendor.name = VendorIoGenix
                   THEN parse_iogenix_row(cfg.vendor.name, PipelineState, row, detect)
                   ELSE ProcessTableRow(cfg, PipelineState, row)} :
             /\ processing' = IF first THEN f.process ELSE processing
             /\ current_col_indices' = detect
             /\ SetPipeline(r.ps)
             /\ pc' = IF r.raises THEN "raised" ELSE pc
    /\ rows_read' = rows_read + 1
    /\ row_read' = row
    /\ UNCHANGED <<aux, cfg, in_table, alt_phase, stages>>

\* One line of the text under _extract_table_regex, lines 621-668
TableLine(line) ==
    /\ pc = "table" /\ cfg.table.strategy \notin {"pdfplumber_table", "text_regex_multiline"}
    /\ cfg.table.row_pattern
    /\ rows_read < MaxRows
    /\ \E st \in {RegexLine(cfg, [ps |-> PipelineState, in_table |-> in_table], line)} :
         /\ SetPipeline(st.ps)
         /\ in_table' = st.in_table
    /\ rows_read' = rows_read + 1
    /\ row_read' = line
    /\ UNCHANGED <<aux, cfg, pc, current_col_indices, processing, alt_phase, stages>>

\* One match under _extract_table_regex_multiline, lines 697-745: the
\* matches of the primary pattern come first, those of the alternate pattern
\* (when it and its columns are configured) after them
TableMatch(alt, groups) ==
    /\ pc = "table" /\ cfg.table.strategy = "text_regex_multiline"
    /\ cfg.table.row_pattern
    /\ rows_read < MaxRows
    /\ alt_phase => alt
    /\ alt => cfg.table.row_pattern_alt /\ cfg.table.columns_alt # <<>>
    /\ \E ps \in {BlockMatch(cfg, PipelineState, alt, groups)} : SetPipeline(ps)
    /\ alt_phase' = alt
    /\ rows_read' = rows_read + 1
    /\ row_read' = groups
    /\ UNCHANGED <<aux, cfg, pc, in_table, current_col_indices, processing, stages>>

\* the end of the table stage with the footer left out
TableDoneSkippingFooter ==
    /\ pc = "table"
    /\ data' = [data EXCEPT !.order_items = items]
    /\ pc' = "fallbacks"
    /\ stages' = Append(stages, "table")
    /\ row_read' = <<>>
    /\ UNCHANGED <<aux, cfg, items, in_table, current_col_indices, processing, alt_phase,
                   rows_read, calls, pending_item>>

\* the end of the table stage, lines 439, 670 and 747 (a regex strategy
\* without row pattern returns at once, lines 617-619 and 694-696)
TableDone ==
    /\ pc = "table"
    /\ data' = [data EXCEPT !.order_items = items]
    /\ pc' = "footer"
    /\ stages' = Append(stages, "table")
    /\ row_read' = <<>>
    /\ UNCHANGED <<aux, cfg, items, in_table, current_col_indices, processing, alt_phase,
                   rows_read, calls, pending_item>>

\* line 50, _extract_footer
ExtractFooter(caps) ==
    /\ pc = "footer"
    /\ \E r \in {extract_footer(cfg.footer, caps, data.totals)} :
         /\ data' = [data EXCEPT !.totals = r.totals]
         /\ pc' = IF r.raises THEN "raised" ELSE "fallbacks"
         /\ stages' = IF r.raises THEN stages ELSE Append(stages, "footer")
    /\ UNCHANGED <<aux, cfg, tablevars>>

\* line 53, _calculate_fallbacks
CalculateFallbacks ==
    /\ pc = "fallbacks"
    /\ \E r \in {calculate_fallbacks(data.order_items, data.totals)} :
           /\ data' = [data EXCEPT !.totals = r.totals]
           /\ pc' = IF r.raises THEN "raised" ELSE "discount"
           /\ stages' = IF r.raises THEN stages ELSE Append(stages, "fallbacks")
    /\ UNCHANGED <<aux, cfg, tablevars>>

\* line 56, _apply_global_discount
ApplyGlobalDiscount ==
    /\ pc = "discount"
    /\ \E r \in {apply_global_discount(data.order_items, data.totals)} :
           /\ data' = [data EXCEPT !.order_items = r.order_items, !.totals = r.totals]
           /\ pc' = IF r.raises THEN "raised" ELSE "inlead"
           /\ stages' = IF r.raises THEN stages ELSE Append(stages, "discount")
    /\ UNCHANGED <<aux, cfg, tablevars>>

\* line 59, _apply_inlead_logic (lines 74-89): it does nothing
ApplyInleadLogic ==
    /\ pc = "inlead"
    /\ pc' = "dynveo"
    /\ stages' = Append(stages, "inlead")
    /\ UNCHANGED <<aux, cfg, data, tablevars>>

\* line 62, _apply_dynveo_logic (lines 280-314): it computes and changes
\* nothing, a ValueError or TypeError of float() is caught
ApplyDynveoLogic ==
    /\ pc = "dynveo"
    /\ pc' = "lifepro"
    /\ stages' = Append(stages, "dynveo")
    /\ UNCHANGED <<aux, cfg, data, tablevars>>

\* line 65, _apply_lifepro_logic, and the return of self.data (line 72)
ApplyLifeProLogic ==
    /\ pc = "lifepro"
    /\ data' = [data EXCEPT !.order_items = apply_lifepro_logic(cfg.vendor.name, @)]
    /\ pc' = "done"
    /\ stages' = Append(stages, "lifepro")
    /\ UNCHANGED <<aux, cfg, tablevars>>

Next ==
    \/ \E file \in ConfigFiles : LoadConfig(file)
    \/ Construct
    \/ OpenDocument
    \/ \E caps \in HeaderTexts : ExtractHeader(caps)
    \/ \E row \in CellRows \cup PackedRows :
          pc = "table" /\ row \in RowsOf(cfg.vendor.name) /\ TableRow(row)
    \/ \E line \in Lines : TableLine(line)
    \/ \E alt \in BOOLEAN, groups \in RowMatches : TableMatch(alt, groups)
    \/ TableDone
    \/ \E caps \in FooterTexts : ExtractFooter(caps)
    \/ CalculateFallbacks
    \/ ApplyGlobalDiscount
    \/ ApplyInleadLogic
    \/ ApplyDynveoLogic
    \/ ApplyLifeProLogic

Spec == Init /\ [][Next]_vars


(***************************************************************************)
(* The row pipeline: merge, orphan rows, freight rows                      *)
(***************************************************************************)
\* a raw item that carries identity data (sku and description) and no total
IdentityOnly(raw) ==
    Truthy(raw, "sku") /\ Truthy(raw, "description") /\ ~Truthy(raw, "total")

\* a raw item that carries priced data (a total) and neither sku nor
\* description
PricedOnly(raw) ==
    Truthy(raw, "total") /\ ~Truthy(raw, "sku") /\ ~Truthy(raw, "description")

\* the merge state is idle: nothing is cached
Idle(pending) == pending = EmptyDict

\* the property of a pair of consecutive calls of _process_item: the first
\* emits nothing, the second emits one item that holds the identity fields
\* of the first raw item and the priced fields of the second, and the
\* pending cache is empty after it
PairEmitsOneMergedItem(first, second) ==
    /\ ~first.emit
    /\ second.emit
    /\ \A k \in {"sku", "description"} : Get(second.item, k) = first.raw[k]
    /\ \A k \in {"quantity", "unit_price", "total"} \cap DOMAIN second.raw :
           Get(second.item, k) = second.raw[k]
    /\ Idle(second.after)

\* C1: whenever _process_item is handed a raw item with sku and description
\* and no total, and next a raw item with a total and neither sku nor
\* description, exactly one item is emitted for the pair, it holds the fields
\* of both, nothing is emitted for the first alone, and the pending cache is
\* empty afterwards.  Stated for the vendor whose rows the code merges
\* (line 94), "Shaker Store".
C1_PairEmitsOneMergedItem ==
    \A i \in 1..(Len(calls) - 1) :
        /\ cfg.vendor.name = VendorShakerStore
        /\ IdentityOnly(calls[i].raw) /\ PricedOnly(calls[i + 1].raw)
        => PairEmitsOneMergedItem(calls[i], calls[i + 1])

FreightRow(item) ==
    \/ StrUpper(Get(item, "sku")) \in ShippingSkus
    \/ \E kw \in StrictShippingKeywords : ContainsWord(StrLower(Get(item, "description")), kw)
    \/ \E kw \in LooseShippingKeywords : Contains(StrLower(Get(item, "description")), kw)
    \/ /\ Truthy(item, "position")
       /\ \E kw \in LooseShippingKeywords : Contains(StrLower(item["position"]), kw)

RECURSIVE FreightSum(_, _)
FreightSum(cs, i) ==
    IF i > Len(cs) THEN RZero
    ELSE IF ~cs[i].emit /\ FreightRow(cs[i].item) /\ FloatOrZero(cs[i].item, "total").ok
    THEN RAdd(FloatOrZero(cs[i].item, "total").val, FreightSum(cs, i + 1))
    ELSE FreightSum(cs, i + 1)

\* C4: once extract() has returned after freight rows were removed,
\* totals.shipping_fee is the sum of their totals, written with two decimals
\* (one row of total 12.50 gives "12.50"), whatever the footer held.
C4_ShippingFeeIsSumOfFreightTotals ==
    /\ pc = "done"
    /\ \E i \in 1..Len(calls) : ~calls[i].emit /\ FreightRow(calls[i].item)
    => /\ HasKey(data.totals, "shipping_fee")
       /\ data.totals["shipping_fee"] = Fmt2f(FreightSum(calls, 1))

\* C4, the number alone: the same with totals.shipping_fee read as a number,
\* so that "12.5" stands for 12.50.
C4_ShippingFeeEqualsSumAsNumber ==
    /\ pc = "done"
    /\ \E i \in 1..Len(calls) : ~calls[i].emit /\ FreightRow(calls[i].item)
    => /\ HasKey(data.totals, "shipping_fee")
       /\ PyFloat(data.totals["shipping_fee"]).ok
       /\ PyFloat(data.totals["shipping_fee"]).val = FreightSum(calls, 1)

(***************************************************************************)
(* The totals reconciler                                                   *)
(***************************************************************************)
\* what an item adds to the subtotal: its total, or quantity x unit price
\* when it has no total and has both, or nothing
Contribution(item) ==
    IF Truthy(item, "total") THEN PyFloat(item["total"])
    ELSE IF Truthy(item, "quantity") /\ Truthy(item, "unit_price")
                /\ PyFloat(item["quantity"]).ok /\ PyFloat(item["unit_price"]).ok
    THEN [ok |-> TRUE, val |-> RMul(PyFloat(item["quantity"]).val,
                                    PyFloat(item["unit_price"]).val)]
    ELSE IF Truthy(item, "quantity") /\ Truthy(item, "unit_price")
    THEN [ok |-> FALSE, val |-> RZero]
    ELSE [ok |-> TRUE, val |-> RZero]

\* every item's contribution reads as a number
Summable(order_items) == \A i \in 1..Len(order_items) : Contribution(order_items[i]).ok

\* the sum of the contributions of the items up to the n-th
RECURSIVE SumUpTo(_, _)
SumUpTo(order_items, n) ==
    IF n = 0 THEN RZero
    ELSE RAdd(SumUpTo(order_items, n - 1), Contribution(order_items[n]).val)

\* the sum of the totals of the items up to the n-th
RECURSIVE TotalsUpTo(_, _)
TotalsUpTo(order_items, n) ==
    IF n = 0 THEN RZero
    ELSE RAdd(TotalsUpTo(order_items, n - 1), FloatOrZero(order_items[n], "total").val)

\* C5 as written: _calculate_fallbacks always leaves totals.subtotal present;
\* a subtotal that was set is unchanged, otherwise it becomes the sum of
\* total over all order items, the empty sum included, with two decimals.
C5_SubtotalAlwaysPresent ==
    [][pc = "fallbacks" =>
          /\ pc' = "discount"
          /\ HasKey(data'.totals, "subtotal")
          /\ IF Truthy(data.totals, "subtotal")
             THEN data'.totals = data.totals
             ELSE data'.totals =
                    Put(data.totals, "subtotal",
                        Fmt2f(TotalsUpTo(data.order_items, Len(data.order_items))))]_vars

\* C5: when totals.subtotal is set, or there is no order item,
\* _calculate_fallbacks changes nothing (so that a document without items and
\* without a subtotal in its footer ends without subtotal); otherwise it sets
\* totals.subtotal to the two-decimal sum over all order items of the item's
\* total or, for an item without total, of quantity x unit price; it raises,
\* and sets nothing, exactly when one of these texts is no number.
C5_SubtotalFromItemsWhenMissing ==
    [][pc = "fallbacks" =>
          IF Truthy(data.totals, "subtotal") \/ data.order_items = <<>>
          THEN pc' = "discount" /\ data' = data
          ELSE IF Summable(data.order_items)
          THEN /\ pc' = "discount"
               /\ data' = [data EXCEPT !.totals =
                             Put(@, "subtotal",
                                 Fmt2f(SumUpTo(data.order_items, Len(data.order_items))))]
          ELSE pc' = "raised" /\ data' = data]_vars

\* _calculate_fallbacks has set the subtotal of a document of two items, the
\* footer having given none
C5_SubtotalComputed ==
    /\ pc = "discount" /\ Len(data.order_items) = 2
    /\ HasKey(data.totals, "subtotal")
    /\ data.totals["subtotal"] = Fmt2f(SumUpTo(data.order_items, 2))

\* both amounts of the global discount are present and positive
DiscountApplies(totals) ==
    /\ Truthy(totals, "gross_amount") /\ Truthy(totals, "discount_amount")
    /\ PyFloat(totals["gross_amount"]).ok /\ PyFloat(totals["discount_amount"]).ok
    /\ RLess(RZero, PyFloat(totals["gross_amount"]).val)
    /\ RLess(RZero, PyFloat(totals["discount_amount"]).val)

\* 1 - discount_amount / gross_amount
DiscountFactor(totals) ==
    RSub(RInt(1), RDiv(PyFloat(totals["discount_amount"]).val,
                       PyFloat(totals["gross_amount"]).val))

\* the text of a field is the text before it, as a number, times the factor,
\* rounded to two decimals
Scaled(before, after, k, factor) ==
    Truthy(before, k) /\ PyFloat(before[k]).ok =>
        /\ HasKey(after, k) /\ PyFloat(after[k]).ok
        /\ PyFloat(after[k]).val = Rat(RoundCents(RMul(PyFloat(before[k]).val, factor)), 100)

\* C6: _apply_global_discount returns; when gross_amount and discount_amount
\* are both present and positive, the unit_price and the total of every order
\* item are their former values times (1 - discount_amount / gross_amount),
\* rounded to two decimals; otherwise no item changes.
C6_DiscountScalesEveryItem ==
    [][pc = "discount" =>
          /\ pc' = "inlead"
          /\ IF DiscountApplies(data.totals)
             THEN /\ Len(data'.order_items) = Len(data.order_items)
                  /\ \A i \in 1..Len(data.order_items) :
                        /\ Scaled(data.order_items[i], data'.order_items[i], "unit_price",
                                  DiscountFactor(data.totals))
                        /\ Scaled(data.order_items[i], data'.order_items[i], "total",
                                  DiscountFactor(data.totals))
             ELSE data'.order_items = data.order_items]_vars

(***************************************************************************)
(* extract(): the order of the stages, and what makes it raise             *)
(***************************************************************************)
\* the stages of extract() in the order of lines 39-65
StageOrder ==
    <<"header", "table", "footer", "fallbacks", "discount", "inlead", "dynveo", "lifepro">>

\* the keys of the result, lines 14-24
ResultKeys == {"vendor", "customer", "order_items", "totals", "metadata"}

\* the place of a stage among the stages completed, 0 when it is not there
StagePlace(name) ==
    IF \E i \in 1..Len(stages) : stages[i] = name
    THEN CHOOSE i \in 1..Len(stages) : stages[i] = name
    ELSE 0

C8_OnlyOpeningRaises ==
    [][pc' = "raised" => pc = "constructed"]_vars

\* a strategy that reads rows by position / by capture group
ReadsByPosition(strategy) == strategy = "pdfplumber_table"

\* C9: a configuration that from_dict has loaded never binds a column by
\* capture group under the structured-table strategy nor by position under a
\* regex strategy (such a file is refused when it is loaded).
C9_LoadedConfigMatchesStrategy ==
    pc \notin {"start", "config_error"} =>
        \A i \in 1..Len(cfg.table.columns) :
            IF ReadsByPosition(cfg.table.strategy)
            THEN cfg.table.columns[i].regex_group = NoIndex
            ELSE cfg.table.columns[i].index = NoIndex

(***************************************************************************)
(* The structured-table strategy: rows of a header-matched table           *)
(***************************************************************************)
HeaderRow == <<<<"D", "e", "s", "c", "r", "i", "p", "t", "i", "o", "n">>, <<"Q", "t", "y">>, <<"P", "r", "i", "c", "e">>, <<"T", "o", "t", "a", "l">>>>

WidgetRow == <<<<"W", "i", "d", "g", "e", "t">>, <<"3">>, <<"1", "0", ".", "0", "0">>, <<"3", "0", ".", "0", "0">>>>

WidgetItem ==
    [description |-> <<"W", "i", "d", "g", "e", "t">>, quantity |-> <<"3">>,
     unit_price |-> <<"1", "0", ".", "0", "0">>, total |-> <<"3", "0", ".", "0", "0">>]

SubtotalOfWidget == <<"3", "0", ".", "0", "0">>

\* the structured-table strategy with header keywords description, qty,
\* price, total, for a vendor whose rows are not packed
StructuredWithKeywords ==
    /\ cfg # EmptyDict
    /\ cfg.table.strategy = "pdfplumber_table"
    /\ cfg.table.header_keywords = HeaderKeywordsData
    /\ cfg.vendor.name # VendorIoGenix

\* the semantic columns description, quantity, unit_price and total are bound
\* to the positions 0..3, each of type string
TextColumnsByPosition ==
    /\ Len(cfg.table.columns) = 4
    /\ \A i \in 1..4 :
          /\ cfg.table.columns[i].name = IndexColumnsText[i].name
          /\ cfg.table.columns[i].index = i - 1
          /\ cfg.table.columns[i].type = "string"

\* the cell texts of a row under the semantic columns
CellTexts(row) ==
    [description |-> clean_text(row[1]), quantity |-> clean_text(row[2]),
     unit_price |-> clean_text(row[3]), total |-> clean_text(row[4])]

\* the row holds two of the header keywords or more
IsHeaderRow(row) == HeaderMatches(cfg.table.header_keywords, row) >= MinHeaderMatches

RequiredKeys == <<"vendor", "customer", "order_items", "totals", "metadata">>

\* d.get(k, {}) for a namespace of the result
Namespace(d, k) == IF HasKey(d, k) THEN d[k] ELSE EmptyDict

\* d.get('order_items', [])
ItemsOf(d) == IF HasKey(d, "order_items") THEN d["order_items"] ELSE <<>>

\* _check_structure, lines 34-39: an error per top-level key that is missing
RECURSIVE check_structure(_, _)
check_structure(d, k) ==
    IF k > Len(RequiredKeys) THEN <<>>
    ELSE (IF HasKey(d, RequiredKeys[k]) THEN <<>> ELSE <<<<"missing_key", k>>>>)
         \o check_structure(d, k + 1)

\* _check_required_fields, lines 41-57: [errors, warnings]
check_required_fields(d) ==
    [errors |->
        (IF Truthy(Namespace(d, "vendor"), "name") THEN <<>>
         ELSE <<<<"vendor_name_missing", 0>>>>)
        \o (IF Truthy(Namespace(d, "metadata"), "invoice_number") THEN <<>>
            ELSE <<<<"invoice_number_missing", 0>>>>)
        \o (IF Truthy(Namespace(d, "metadata"), "invoice_date") THEN <<>>
            ELSE <<<<"invoice_date_missing", 0>>>>),
     warnings |-> IF ItemsOf(d) = <<>> THEN <<<<"no_order_items", 0>>>> ELSE <<>>]

\* lines 64-78: the errors of one item, a field that float() refuses each
NumericFields == <<"quantity", "unit_price", "total">>

ItemTypeErrors(item, idx) ==
    LET Refused(f) == IF FloatOrZero(item, NumericFields[f]).ok THEN <<>>
                      ELSE <<<<NumericFields[f], idx>>>>
    IN  Refused(1) \o Refused(2) \o Refused(3)

\* _check_data_types, lines 59-78
RECURSIVE check_data_types(_, _)
check_data_types(order_items, idx) ==
    IF idx > Len(order_items) THEN <<>>
    ELSE ItemTypeErrors(order_items[idx], idx) \o check_data_types(order_items, idx + 1)

\* the tolerance of the per-item check, line 97: 0.05
ItemTolerance == Rat(1, 20)

\* the tolerance of the document-level check, line 122: 0.5
SubtotalTolerance == Rat(1, 2)

\* lines 90-101: the warning of one item; a ValueError of float() is passed
ItemMathWarning(item, idx) ==
    LET Compare(qty, price, line_total) ==
            IF qty.ok /\ price.ok /\ line_total.ok
               /\ RLess(ItemTolerance, RAbs(RSub(RMul(qty.val, price.val), line_total.val)))
            THEN <<<<"item_total", idx>>>>
            ELSE <<>>
    IN  Compare(FloatOrZero(item, "quantity"), FloatOrZero(item, "unit_price"),
                FloatOrZero(item, "total"))

\* lines 88-101
RECURSIVE check_item_totals(_, _)
check_item_totals(order_items, idx) ==
    IF idx > Len(order_items) THEN <<>>
    ELSE ItemMathWarning(order_items[idx], idx) \o check_item_totals(order_items, idx + 1)

\* line 105: sum(float(item.get('total', 0)) for item in items): [ok, val]
RECURSIVE ItemsSum(_, _)
ItemsSum(order_items, idx) ==
    IF idx > Len(order_items) THEN [ok |-> TRUE, val |-> RZero]
    ELSE LET Add(t, rest) == [ok |-> t.ok /\ rest.ok, val |-> RAdd(t.val, rest.val)]
         IN  Add(FloatOrZero(order_items[idx], "total"), ItemsSum(order_items, idx + 1))

\* lines 108-110: the declared subtotal, the total standing in for it
DeclaredSubtotal(totals) ==
    IF Truthy(totals, "subtotal") THEN totals["subtotal"]
    ELSE IF Truthy(totals, "total") THEN totals["total"]
    ELSE <<>>

\* line 119: float(totals.get('shipping_fee', 0) or 0)
ShippingOf(totals) ==
    IF Truthy(totals, "shipping_fee") THEN PyFloat(totals["shipping_fee"])
    ELSE [ok |-> TRUE, val |-> RZero]

\* lines 103-125: the errors of the document-level check; a ValueError of a
\* float() passes the check over
check_subtotal(order_items, totals) ==
    LET Compare(items_sum, declared, shipping) ==
            IF /\ items_sum.ok /\ declared.ok /\ shipping.ok
               /\ RLess(SubtotalTolerance, RAbs(RSub(items_sum.val, declared.val)))
               /\ RLess(SubtotalTolerance,
                        RAbs(RSub(RAdd(items_sum.val, shipping.val), declared.val)))
            THEN <<<<"subtotal", 0>>>>
            ELSE <<>>
    IN  IF DeclaredSubtotal(totals) = <<>> THEN <<>>
        ELSE Compare(ItemsSum(order_items, 1), PyFloat(DeclaredSubtotal(totals)),
                     ShippingOf(totals))

\* _check_mathematics with the per-item mismatches taken for errors
check_mathematics_hard(d) ==
    IF ItemsOf(d) = <<>> THEN [errors |-> <<>>, warnings |-> <<>>]
    ELSE [errors   |-> check_item_totals(ItemsOf(d), 1)
                       \o check_subtotal(ItemsOf(d), Namespace(d, "totals")),
          warnings |-> <<>>]

\* _check_mathematics, lines 80-125: [errors, warnings]
check_mathematics(d) ==
    IF ItemsOf(d) = <<>> THEN [errors |-> <<>>, warnings |-> <<>>]
    ELSE [errors   |-> check_subtotal(ItemsOf(d), Namespace(d, "totals")),
          warnings |-> check_item_totals(ItemsOf(d), 1)]


(***************************************************************************)
(* InvoiceValidator as a state machine: the documents it is given and the  *)
(* checks of validate() in their order                                     *)
(***************************************************************************)
\* The most items a document handed to the validator holds.
MaxItems == 2

\* the items of the documents
ValidatorItems ==
    { [quantity |-> <<"2">>, unit_price |-> <<"5", ".", "0", "0">>, total |-> <<"1", "1", ".", "0", "0">>],
      [quantity |-> <<"2">>, unit_price |-> <<"5", ".", "0", "0">>, total |-> <<"1", "0", ".", "0", "0">>],
      [quantity |-> <<"3">>, unit_price |-> <<"1", "0", ".", "0", "0">>, total |-> <<"3", "0", ".", "0", "0">>],
      [quantity |-> <<"1">>, unit_price |-> <<"1", "0", ".", "0", "0">>, total |-> <<"1", "0", ".", "0", "4">>],
      [quantity |-> <<"2", ",", "5">>, unit_price |-> <<"4", ".", "0", "0">>, total |-> <<"1", "0", ".", "0", "0">>],
      [unit_price |-> <<"5", ".", "0", "0">>, total |-> <<"5", ".", "0", "0">>] }

\* the item lists of the documents
ValidatorItemLists ==
    UNION { [1..n -> ValidatorItems] : n \in 0..MaxItems }

\* the totals of the documents
ValidatorTotals ==
    { EmptyDict,
      [subtotal |-> <<"3", "5", ".", "0", "0">>, shipping_fee |-> <<"5", ".", "0", "0">>],
      [subtotal |-> <<"3", "5", ".", "0", "0">>],
      [subtotal |-> <<"3", "0", ".", "0", "0">>],
      [total |-> <<"4", "0", ".", "0", "0">>, shipping_fee |-> <<"5", ".", "0">>],
      [subtotal |-> <<"3", "5", ",", "0", "0">>] }

\* the metadata of the documents
ValidatorMetadata ==
    { [invoice_number |-> <<"I", "N", "V", "1">>,
       invoice_date |-> <<"2", "0", "2", "4", "-", "1", "0", "-", "3", "0">>],
      [invoice_date |-> <<"2", "0", "2", "4", "-", "1", "0", "-", "3", "0">>] }

\* a document with every top-level key
ValidatorDocument(order_items, totals, metadata) ==
    [k \in {"vendor", "customer", "order_items", "totals", "metadata"} |->
        CASE k = "vendor"      -> [name |-> <<"A", "c", "m", "e">>]
          [] k = "customer"    -> EmptyDict
          [] k = "order_items" -> order_items
          [] k = "totals"      -> totals
          [] OTHER             -> metadata]

\* a document without one of its keys
WithoutKey(d, key) == [k \in (DOMAIN d) \ {key} |-> d[k]]

\* the documents handed to the validator: complete ones, and ones that lack
\* the key customer
ValidatorDocuments ==
    LET complete == { ValidatorDocument(i, t, m) :
                        i \in ValidatorItemLists, t \in ValidatorTotals,
                        m \in ValidatorMetadata }
    IN  complete \cup { WithoutKey(d, "customer") : d \in complete }

\* the state of the parsers and of the calls of the pure functions
parservars == <<cfg, pc, data, tablevars, stages, other, fn_pc, fn_arg, fn_ret, text>>

\* InvoiceValidator(data), lines 9-12
InitValidator ==
    /\ ParserAtStart /\ NoOther /\ NoCall /\ NoText
    /\ v_pc = "constructed"
    /\ v_data \in ValidatorDocuments
    /\ errors = <<>>
    /\ warnings = <<>>

\* validate(), lines 19-23: the lists are emptied and _check_structure runs;
\* the other checks are left out when it found an error
CheckStructure ==
    /\ v_pc = "constructed"
    /\ errors' = check_structure(v_data, 1)
    /\ warnings' = <<>>
    /\ v_pc' = IF errors' = <<>> THEN "required" ELSE "return"
    /\ UNCHANGED <<parservars, v_data>>

\* line 24, _check_required_fields
CheckRequiredFields ==
    /\ v_pc = "required"
    /\ \E r \in {check_required_fields(v_data)} :
         /\ errors' = errors \o r.errors
         /\ warnings' = warnings \o r.warnings
    /\ v_pc' = "types"
    /\ UNCHANGED <<parservars, v_data>>

\* line 25, _check_data_types
CheckDataTypes ==
    /\ v_pc = "types"
    /\ errors' = errors \o check_data_types(ItemsOf(v_data), 1)
    /\ v_pc' = "mathematics"
    /\ UNCHANGED <<parservars, v_data, warnings>>

\* line 26, _check_mathematics
CheckMathematics ==
    /\ v_pc = "mathematics"
    /\ \E r \in {check_mathematics(v_data)} :
         /\ errors' = errors \o r.errors
         /\ warnings' = warnings \o r.warnings
    /\ v_pc' = "return"
    /\ UNCHANGED <<parservars, v_data>>

\* lines 28-32: the dict validate() returns
Verdict == [valid |-> errors = <<>>, errors |-> errors, warnings |-> warnings]

\* lines 28-32
ReturnVerdict ==
    /\ v_pc = "return"
    /\ v_pc' = "returned"
    /\ UNCHANGED <<parservars, v_data, errors, warnings>>

NextValidator ==
    \/ CheckStructure
    \/ CheckRequiredFields
    \/ CheckDataTypes
    \/ CheckMathematics
    \/ ReturnVerdict

SpecValidator == InitValidator /\ [][NextValidator]_vars


(***************************************************************************)
(* C11, C12: the mathematical checks of the validator                      *)
(***************************************************************************)
\* the messages of a list
Messages(list) == { list[i] : i \in 1..Len(list) }

\* the number of times a message stands in a list
RECURSIVE Occurrences(_, _)
Occurrences(list, msg) ==
    IF list = <<>> THEN 0
    ELSE (IF Head(list) = msg THEN 1 ELSE 0) + Occurrences(Tail(list), msg)

\* every top-level key is there, so that validate() goes beyond the
\* structural check
StructureComplete(d) == \A k \in 1..Len(RequiredKeys) : HasKey(d, RequiredKeys[k])

\* the document has items, a declared subtotal, and every number of the
\* document-level comparison reads as a float
DocumentComparable(d) ==
    /\ StructureComplete(d)
    /\ d["order_items"] # <<>>
    /\ ItemsSum(d["order_items"], 1).ok
    /\ Truthy(d["totals"], "subtotal")
    /\ PyFloat(d["totals"]["subtotal"]).ok
    /\ ShippingOf(d["totals"]).ok

\* |S - D| > 0.5
SumFarFromSubtotal(d) ==
    RLess(SubtotalTolerance,
          RAbs(RSub(ItemsSum(d["order_items"], 1).val, PyFloat(d["totals"]["subtotal"]).val)))

\* |S + F - D| > 0.5
SumWithShippingFarFromSubtotal(d) ==
    RLess(SubtotalTolerance,
          RAbs(RSub(RAdd(ItemsSum(d["order_items"], 1).val, ShippingOf(d["totals"]).val),
                    PyFloat(d["totals"]["subtotal"]).val)))

\* C11 as written: with S the sum of the item totals, F the shipping fee
\* and D the declared subtotal, validate() records the document-level hard
\* error exactly when |S - D| > 0.5 and |S + F - D| > 0.5, a warning and no
\* error when |S - D| > 0.5 and |S + F - D| <= 0.5, and nothing when
\* |S - D| <= 0.5.
C11_ErrorWarningOrNothing ==
    (v_pc = "returned" /\ DocumentComparable(v_data))
    => /\ (<<"subtotal", 0>> \in Messages(errors))
            <=> (SumFarFromSubtotal(v_data) /\ SumWithShippingFarFromSubtotal(v_data))
       /\ (SumFarFromSubtotal(v_data) /\ ~SumWithShippingFarFromSubtotal(v_data))
            => <<"subtotal", 0>> \in Messages(warnings)
       /\ ~SumFarFromSubtotal(v_data)
            => <<"subtotal", 0>> \notin Messages(warnings)

\* the part of C11 the code keeps: the hard error stands exactly when both
\* comparisons fail, and no warning is ever recorded at the document level
C11_ErrorExactlyWhenBothFail ==
    (v_pc = "returned" /\ DocumentComparable(v_data))
    => /\ (<<"subtotal", 0>> \in Messages(errors))
            <=> (SumFarFromSubtotal(v_data) /\ SumWithShippingFarFromSubtotal(v_data))
       /\ <<"subtotal", 0>> \notin Messages(warnings)

\* a document whose items sum to 30.00, with shipping fee 5.00 and declared
\* subtotal 35.00, has been validated
C11_ShippingExplainsSubtotal ==
    /\ v_pc = "returned" /\ DocumentComparable(v_data)
    /\ SumFarFromSubtotal(v_data) /\ ~SumWithShippingFarFromSubtotal(v_data)
    /\ ItemsSum(v_data["order_items"], 1).val = RInt(30)
    /\ ShippingOf(v_data["totals"]).val = RInt(5)
    /\ errors = <<>>


\* the three numbers of an item read as floats (an absent one reads as 0)
ItemReadable(item) ==
    /\ FloatOrZero(item, "quantity").ok
    /\ FloatOrZero(item, "unit_price").ok
    /\ FloatOrZero(item, "total").ok

\* |quantity * unit_price - total| > 0.05
ItemMismatch(item) ==
    /\ ItemReadable(item)
    /\ RLess(ItemTolerance,
             RAbs(RSub(RMul(FloatOrZero(item, "quantity").val,
                            FloatOrZero(item, "unit_price").val),
                       FloatOrZero(item, "total").val)))

\* the messages a step has appended to a list
Appended(before, after) == SubSeq(after, Len(before) + 1, Len(after))

Own ==
    [pc |-> pc, data |-> data, pending_item |-> pending_item, items |-> items,
     in_table |-> in_table, current_col_indices |-> current_col_indices,
     processing |-> processing, alt_phase |-> alt_phase, rows_read |-> rows_read,
     row_read |-> row_read, calls |-> calls, stages |-> stages]

\* a parser on a loaded configuration, before its construction
Unconstructed ==
    [pc |-> "loaded", data |-> EmptyDict, pending_item |-> EmptyDict, items |-> <<>>,
     in_table |-> FALSE, current_col_indices |-> EmptyDict, processing |-> FALSE,
     alt_phase |-> FALSE, rows_read |-> 0, row_read |-> <<>>, calls |-> <<>>,
     stages |-> <<>>]

\* the configuration files shared: the one of the vendor whose rows are merged
SharedConfigFiles == { f \in ConfigFiles : f.vendor.name = VendorShakerStore }

\* what the header and footer patterns capture in the documents
SharedHeaderTexts == { [invoice_number |-> <<"I", "N", "V", "1">>] }

SharedFooterTexts == { EmptyDict }

\* the lines of the documents: the start marker, an identity row, a priced row
SharedLines ==
    { l \in Lines :
        \/ l.start
        \/ /\ l.row.matched
           /\ l.row.groups[1] \in {<<"A">>, NoneValue}
           /\ l.row.groups[3] \in {<<"2">>, NoneValue}
           /\ l.row.groups[1] # l.row.groups[3] }

\* the running parser is put to rest and the one at rest runs on
Switch ==
    /\ other # EmptyDict
    /\ pc' = other.pc
    /\ data' = other.data
    /\ pending_item' = other.pending_item
    /\ items' = other.items
    /\ in_table' = other.in_table
    /\ current_col_indices' = other.current_col_indices
    /\ processing' = other.processing
    /\ alt_phase' = other.alt_phase
    /\ rows_read' = other.rows_read
    /\ row_read' = other.row_read
    /\ calls' = other.calls
    /\ stages' = other.stages
    /\ other' = Own
    /\ UNCHANGED <<cfg, v_pc, v_data, errors, warnings, fn_pc, fn_arg, fn_ret, text>>

\* one configuration is loaded and two parsers are about to be constructed
\* on it
InitShared ==
    /\ cfg \in { from_dict(f).config : f \in SharedConfigFiles }
    /\ pc = Unconstructed.pc
    /\ data = Unconstructed.data
    /\ pending_item = Unconstructed.pending_item
    /\ items = Unconstructed.items
    /\ in_table = Unconstructed.in_table
    /\ current_col_indices = Unconstructed.current_col_indices
    /\ processing = Unconstructed.processing
    /\ alt_phase = Unconstructed.alt_phase
    /\ rows_read = Unconstructed.rows_read
    /\ row_read = Unconstructed.row_read
    /\ calls = Unconstructed.calls
    /\ stages = Unconstructed.stages
    /\ other = Unconstructed
    /\ NoValidator /\ NoCall /\ NoText

NextShared ==
    \/ Construct
    \/ OpenDocument
    \/ \E caps \in SharedHeaderTexts : ExtractHeader(caps)
    \/ \E line \in SharedLines : TableLine(line)
    \/ TableDone
    \/ \E caps \in SharedFooterTexts : ExtractFooter(caps)
    \/ CalculateFallbacks
    \/ ApplyGlobalDiscount
    \/ ApplyInleadLogic
    \/ ApplyDynveoLogic
    \/ ApplyLifeProLogic
    \/ Switch

SpecShared == InitShared /\ [][NextShared]_vars


(***************************************************************************)
(* C13: two extractions on one shared ParserConfig                         *)
(***************************************************************************)
\* the stage that ends without exception moves on and is recorded
StageEnd(st, raises, next, name) ==
    [st EXCEPT !.pc = IF raises THEN "raised" ELSE next,
               !.stages = IF raises THEN @ ELSE Append(@, name)]

\* the table stage of a parser that runs alone: one more line, or the end
AloneTableSteps(st, config) ==
    { [st EXCEPT !.items = r.ps.items, !.pending_item = r.ps.pending,
                 !.data = [@ EXCEPT !.totals = r.ps.totals], !.calls = r.ps.calls,
                 !.in_table = r.in_table, !.rows_read = @ + 1, !.row_read = r.line]
        : r \in { [line |-> ln] @@
                  RegexLine(config, [ps |-> [items |-> st.items, pending |-> st.pending_item,
                                             totals |-> st.data.totals, calls |-> st.calls],
                                     in_table |-> st.in_table], ln)
                    : ln \in IF st.rows_read < MaxRows THEN SharedLines ELSE {} } }
      \cup
    { [st EXCEPT !.data = [@ EXCEPT !.order_items = st.items], !.pc = "footer",
                 !.stages = Append(@, "table"), !.row_read = <<>>] }

\* the steps a parser in the state st takes when no other parser exists
AloneSteps(st, config) ==
    CASE st.pc = "loaded" ->
           { [st EXCEPT !.data = [vendor |-> [name |-> config.vendor.name,
                                              currency |-> config.vendor.currency,
                                              language |-> config.vendor.language],
                                  customer |-> EmptyDict, order_items |-> <<>>,
                                  totals |-> EmptyDict, metadata |-> EmptyDict],
                        !.pending_item = EmptyDict, !.pc = "constructed"] }
      [] st.pc = "constructed" ->
           { [st EXCEPT !.pc = "header"], [st EXCEPT !.pc = "raised"] }
      [] st.pc = "header" ->
           { StageEnd([st EXCEPT !.data = r.data], r.raises, "table", "header")
               : r \in { extract_header(config.header, config.vendor.language, caps, st.data)
                           : caps \in SharedHeaderTexts } }
      [] st.pc = "table" -> AloneTableSteps(st, config)
      [] st.pc = "footer" ->
           { StageEnd([st EXCEPT !.data = [@ EXCEPT !.totals = r.totals]],
                      r.raises, "fallbacks", "footer")
               : r \in { extract_footer(config.footer, caps, st.data.totals)
                           : caps \in SharedFooterTexts } }
      [] st.pc = "fallbacks" ->
           { StageEnd([st EXCEPT !.data = [@ EXCEPT !.totals = r.totals]],
                      r.raises, "discount", "fallbacks")
               : r \in { calculate_fallbacks(st.data.order_items, st.data.totals) } }
      [] st.pc = "discount" ->
           { StageEnd([st EXCEPT !.data = [@ EXCEPT !.order_items = r.order_items,
                                                    !.totals = r.totals]],
                      r.raises, "inlead", "discount")
               : r \in { apply_global_discount(st.data.order_items, st.data.totals) } }
      [] st.pc = "inlead" -> { StageEnd(st, FALSE, "dynveo", "inlead") }
      [] st.pc = "dynveo" -> { StageEnd(st, FALSE, "lifepro", "dynveo") }
      [] st.pc = "lifepro" ->
           { StageEnd([st EXCEPT !.data = [@ EXCEPT !.order_items =
                                             apply_lifepro_logic(config.vendor.name, @)]],
                      FALSE, "done", "lifepro") }
      [] OTHER -> {}

\* C13: when two extractions share one ParserConfig and their stages are
\* interleaved in any order, no step writes the configuration, a step of the
\* running extraction leaves the extraction at rest as it was and is the step
\* the running extraction takes alone from its own state (so its result is
\* the one it returns alone), and a switch only exchanges the two.
C13_SharedConfigExtractionsIndependent ==
    [][ /\ cfg' = cfg
        /\ IF other' = other
           THEN Own' \in AloneSteps(Own, cfg)
           ELSE Own' = other /\ other' = Own ]_vars

\* both extractions hold a cached identity row of their own at the same
\* time, after different numbers of lines, on the one configuration
C13_BothMidMerge ==
    /\ pc = "table" /\ other.pc = "table"
    /\ pending_item # EmptyDict /\ other.pending_item # EmptyDict
    /\ rows_read # other.rows_read

\* both extractions have returned, with different order items
C13_BothReturnedDifferently ==
    /\ pc = "done" /\ other.pc = "done"
    /\ data.order_items # other.data.order_items
    /\ data.order_items # <<>>


(***************************************************************************)
(* utils.py: the number parser the tests of tests/test_utils.py import     *)
(***************************************************************************)
\* the floats that are no number of the rationals: nan, inf and -inf
NaN == [n |-> 0, d |-> 0]

Infinity == [n |-> 1, d |-> 0]

IsFinite(a) == a.d # 0

\* float(s) for a str s, the spellings of nan and inf included (the case of
\* the letters is ignored and a sign may precede them): [ok, val]
PyFloatAny(s) ==
    LET Named(negative, body) ==
            IF body = <<"n", "a", "n">> THEN [ok |-> TRUE, val |-> NaN]
            ELSE IF body \in {<<"i", "n", "f">>, <<"i", "n", "f", "i", "n", "i", "t", "y">>}
            THEN [ok |-> TRUE, val |-> [Infinity EXCEPT !.n = IF negative THEN -1 ELSE 1]]
            ELSE PyFloat(s)
        Signed(t) ==
            IF t # <<>> /\ t[1] \in {"-", "+"} THEN Named(t[1] = "-", Tail(t))
            ELSE Named(FALSE, t)
    IN  Signed(StrLower(Strip(s)))

\* x * sign for sign in {1, -1}
TimesSign(a, sign) ==
    IF IsFinite(a) THEN RMul(a, RInt(sign)) ELSE [a EXCEPT !.n = @ * sign]

\* line 34: re.sub(r'[\x00-\x1F\x7F]', '', s), "<del>" standing for \x7F
ControlChars == {"\n", "\t", "\r", "<del>"}

RECURSIVE RemoveControl(_)
RemoveControl(s) ==
    IF s = <<>> THEN <<>>
    ELSE IF Head(s) \in ControlChars THEN RemoveControl(Tail(s))
    ELSE <<Head(s)>> \o RemoveControl(Tail(s))

\* lines 39-46: [sign, s] with the sign taken off the front, else off the end
TakeSign(s) ==
    IF StartsWith(s, <<"-">>) THEN [sign |-> -1, s |-> Tail(s)]
    ELSE IF s # <<>> /\ s[Len(s)] = "-" THEN [sign |-> -1, s |-> SubSeq(s, 1, Len(s) - 1)]
    ELSE [sign |-> 1, s |-> s]

\* the digits behind a decimal comma, line 73, and of a thousands group,
\* lines 76 and 92
DecimalDigits == 2

GroupDigits == 3

\* line 92: re.match(r'^-?\d{1,3}(\.\d{3})+$', s)
IsDotThousands(s) ==
    LET Groups(parts) ==
            /\ Len(parts) >= 2
            /\ Len(parts[1]) \in 1..GroupDigits /\ AllDigits(parts[1])
            /\ \A i \in 2..Len(parts) : Len(parts[i]) = GroupDigits /\ AllDigits(parts[i])
    IN  IF StartsWith(s, <<"-">>) THEN Groups(SplitChar(Tail(s), "."))
        ELSE Groups(SplitChar(s, "."))

\* lines 58-93: s with '.' as its decimal separator and no thousands
\* separator
UtilsResolveSeparators(s) ==
    IF Contains(s, <<",">>) /\ Contains(s, <<".">>)
    THEN IF RFindChar(s, ",") > RFindChar(s, ".")
         THEN ReplaceChar(RemoveChar(s, "."), ",", ".")
         ELSE RemoveChar(s, ",")
    ELSE IF Contains(s, <<",">>)
    THEN LET Resolved(parts) ==
                IF Len(parts) = 2 /\ Len(parts[2]) = DecimalDigits
                THEN ReplaceChar(s, ",", ".")
                ELSE IF \A i \in 2..Len(parts) : Len(parts[i]) = GroupDigits
                THEN IF parts[1] = <<"0">> THEN ReplaceChar(s, ",", ".")
                     ELSE RemoveChar(s, ",")
                ELSE ReplaceChar(s, ",", ".")
         IN  Resolved(SplitChar(s, ","))
    ELSE IF IsDotThousands(s) THEN RemoveChar(s, ".")
    ELSE s

\* utils.parse_number(s), lines 18-99: never a ValueError, 0.0 for what
\* float() refuses
utils_parse_number(s) ==
    LET Converted(f, sign) == IF f.ok THEN TimesSign(f.val, sign) ELSE RZero
        Unsigned(t, sign) ==
            IF ~Contains(t, <<",">>) /\ ~Contains(t, <<".">>)
            THEN Converted(PyFloatAny(t), sign)
            ELSE Converted(PyFloatAny(UtilsResolveSeparators(t)), sign)
        Signed(r) == Unsigned(RemoveChar(r.s, " "), r.sign)
        Cleaned(s2) == IF s2 = <<>> THEN RZero ELSE Signed(TakeSign(s2))
    IN  IF s = <<>> THEN RZero
        ELSE Cleaned(RemoveControl(Strip(RemoveSub(RemoveChar(s, EuroSign),
                                                   <<"E", "U", "R">>))))


(***************************************************************************)
(* The two number parsers called on texts                                  *)
(***************************************************************************)
\* texts that are no number, or a number with something around it
StrayTexts ==
    { <<"-">>,
      <<"-", "-", "5">>,
      <<"1", ".", "2", ".", "3">>,
      <<"a", "b", "c">>,
      <<"n", "a", "n">>,
      <<"i", "n", "f">>,
      <<"-", "i", "n", "f">>,
      <<"N", "a", "N">>,
      <<",">>,
      <<".">>,
      <<"1", ",", "2", ",", "3">>,
      <<" ">>,
      <<"E", "U", "R">>,
      <<EuroSign>>,
      <<"5", " ", "E", "U", "R">>,
      <<EuroSign, " ", "1", "2", ",", "5", "0">>,
      <<"1", "2", "a">>,
      <<"+", "5">>,
      <<"1", " ", "2", "3", "4", ",", "5", "6">>,
      <<"2", "5", " ", "2", "6", "7", ",", "1", "8">>,
      <<"2", "5", "0", " ", "2", "6", "7", ",", "1", "8">>,
      <<"1", ".", "0", "0", "0">>,
      <<"1", "2", "3", "4", ".", "5", "6">>,
      <<"1", "2", "3", "4", ",", "5", "6">>,
      <<"5", "-", "5">> }

\* digits with ',' and without '.'
CommaTexts ==
    { <<"1", "2", "3", ",", "4", "5">>,
      <<"1", ",", "0", "0", "0">>,
      <<"0", ",", "7", "9", "5">>,
      <<"1", ",", "5">>,
      <<"0", ",", "5">>,
      <<"1", ",", "2", "3", "4", "5">>,
      <<"1", "2", ",", "3", "4", "5", ",", "6", "7", "8">>,
      <<"1", ",", "2", "3", ",", "4", "5", "6">>,
      <<"0", ",", "7", "9">>,
      <<"0", ",", "7", "9", "5", "5">>,
      <<"0", ",", "1", "2", "3", ",", "4", "5", "6">>,
      <<"1", "2", ",", "3", "4", "5">>,
      <<"1", ",", "0", "0">>,
      <<"0", ",", "0", "0">> }

\* numeric texts without sign
UnsignedTexts ==
    { <<"1", "2", "3", ".", "4", "5">>,
      <<"5">>,
      <<"1", ".", "2", "3", "4", ",", "5", "6">>,
      <<"1", ",", "2", "3", "4", ".", "5", "6">>,
      <<"0", ",", "7", "9", "5">>,
      <<"1", ",", "0", "0", "0">>,
      <<"1", ".", "0", "0", "0">>,
      <<"1", "2">>,
      <<"0", ".", "5">>,
      <<"1", "2", "3", ",", "4", "5">>,
      <<"1", " ", "2", "3", "4", ",", "5", "6">> }

\* the whole parts rendered: of one, two and three groups of digits
Wholes == {0, 7, 12, 100, 999, 1000, 1234, 25267, 100000, 250267, 1234567}

\* the cents: every value of two decimal digits
Cents == 0..(Pow10(DecimalDigits) - 1)

\* the digits of k in groups of three with sep between the groups
RECURSIVE Grouped(_, _)
Grouped(k, sep) ==
    IF k < Pow10(GroupDigits) THEN NatDigits(k)
    ELSE Grouped(k \div Pow10(GroupDigits), sep) \o <<sep>>
            \o PadDigits(NatDigits(k % Pow10(GroupDigits)), GroupDigits)

\* 1.234,56 and 1,234.56
European(whole, cents) ==
    Grouped(whole, ".") \o <<",">> \o PadDigits(NatDigits(cents), DecimalDigits)

American(whole, cents) ==
    Grouped(whole, ",") \o <<".">> \o PadDigits(NatDigits(cents), DecimalDigits)

\* an amount in both renderings, with its value
RenderedAmounts ==
    { [args  |-> <<European(w, c), American(w, c)>>,
       value |-> Rat(w * Pow10(DecimalDigits) + c, Pow10(DecimalDigits))]
        : w \in Wholes, c \in Cents }

\* a text, then the text with a sign before it or after it
SignedPairs ==
    { <<t, <<"-">> \o t>> : t \in UnsignedTexts } \cup
    { <<t, t \o <<"-">> >> : t \in UnsignedTexts }

\* the arguments of the calls of a test, in the order of the calls
NumberCalls ==
    { <<t>> : t \in {<<>>} \cup StrayTexts \cup CommaTexts \cup UnsignedTexts }
      \cup { r.args : r \in RenderedAmounts }
      \cup SignedPairs

\* a test is about to call a number parser on its first text
InitNumber ==
    /\ ParserAtStart /\ NoValidator /\ NoOther /\ NoText
    /\ fn_pc = "calling"
    /\ fn_arg \in NumberCalls
    /\ fn_ret = <<>>

\* the call returns: the value is recorded and the next text is up
Returned(fn, value) ==
    /\ fn_ret' = Append(fn_ret, [fn |-> fn, value |-> value])
    /\ fn_pc' = IF Len(fn_ret) + 1 = Len(fn_arg) THEN "returned" ELSE "calling"
    /\ UNCHANGED <<fn_arg, other, v_pc, v_data, errors, warnings,
                   cfg, pc, data, tablevars, stages, text>>

\* unified_parser/utils.py, parse_number
ParseNumber ==
    /\ fn_pc = "calling"
    /\ Returned("unified_parser.utils.parse_number", parse_number(fn_arg[Len(fn_ret) + 1]))

\* utils.py, parse_number
UtilsParseNumber ==
    /\ fn_pc = "calling"
    /\ Returned("utils.parse_number", utils_parse_number(fn_arg[Len(fn_ret) + 1]))

NextNumber == ParseNumber \/ UtilsParseNumber

SpecNumber == InitNumber /\ [][NextNumber]_vars


(***************************************************************************)
(* C14 - C17: the number parsers                                           *)
(***************************************************************************)
\* the text holds no digit: there is no number to read in it
NoDigit(t) == \A j \in 1..Len(t) : ~IsDigit(t[j])

\* C14: parse_number is total, every call returns a float (the model's
\* parsers have no exceptional outcome), and a text that cannot be read as a
\* number, one without any digit, yields 0.0.
C14_UnreadableTextYieldsZero ==
    \A i \in 1..Len(fn_ret) : NoDigit(fn_arg[i]) => fn_ret[i].value = RZero

\* a call on a text without digit has returned something else than 0.0
C14_UnreadableTextNotZero ==
    \E i \in 1..Len(fn_ret) : NoDigit(fn_arg[i]) /\ fn_ret[i].value # RZero

\* the parser of unified_parser/utils.py returns 0.0 for a text without digit
C14_UnifiedUnreadableTextYieldsZero ==
    \A i \in 1..Len(fn_ret) :
        NoDigit(fn_arg[i]) /\ fn_ret[i].fn = "unified_parser.utils.parse_number"
            => fn_ret[i].value = RZero

\* C15: for every whole >= 0 and every cents in 0..99 the European rendering
\* and the US rendering are parsed to the same value, whole + cents/100, by
\* either parser.
C15_EuropeanAndUsRenderingsAgree ==
    \A r \in RenderedAmounts :
        fn_arg = r.args => \A i \in 1..Len(fn_ret) : fn_ret[i].value = r.value

\* both renderings of an amount with thousands groups and cents have been
\* parsed, by the two parsers
C15_BothRenderingsParsed ==
    /\ fn_pc = "returned" /\ Len(fn_ret) = 2
    /\ fn_ret[1].fn # fn_ret[2].fn
    /\ Contains(fn_arg[1], <<".">>) /\ Contains(fn_arg[1], <<",">>)
    /\ Contains(fn_arg[2], <<".">>) /\ Contains(fn_arg[2], <<",">>)
    /\ fn_arg[1] # fn_arg[2]
    /\ fn_ret[1].value = fn_ret[2].value
    /\ ~RIsInteger(fn_ret[1].value)

\* float() of the text with its commas taken for decimal points, and with
\* its commas left out
CommaAsDecimal(t) == PyFloat(ReplaceChar(t, ",", ".")).val

CommaAsThousands(t) == PyFloat(RemoveChar(t, ",")).val

\* the comma is followed by exactly two digits, and then the text ends
TwoDigitsAfterComma(t) ==
    LET parts == SplitChar(t, ",")
    IN  Len(parts) = 2 /\ Len(parts[2]) = 2 /\ AllDigits(parts[2])

\* C16: for a text with ',' and without '.', the comma is the decimal
\* separator when exactly two digits follow it and a thousands separator
\* otherwise, except that a text beginning with "0," is always a decimal.
C16_CommaDecimalBeforeTwoDigits ==
    \A i \in 1..Len(fn_ret) :
        fn_arg[i] \in CommaTexts =>
            fn_ret[i].value =
                IF StartsWith(fn_arg[i], <<"0", ",">>) \/ TwoDigitsAfterComma(fn_arg[i])
                THEN CommaAsDecimal(fn_arg[i])
                ELSE CommaAsThousands(fn_arg[i])

\* "0,795" has been parsed to something else than 0.795
C16_ZeroCommaNotDecimal ==
    /\ fn_pc = "returned"
    /\ fn_arg = << <<"0", ",", "7", "9", "5">> >>
    /\ fn_ret[1].value # Rat(795, 1000)

\* C17: a sign before or after the digits is read: for an unsigned numeric
\* text t, the parser that gives v for t gives -v for "-" + t and for t + "-".
C17_SignBeforeOrAfter ==
    (fn_arg \in SignedPairs /\ Len(fn_ret) = 2 /\ fn_ret[1].fn = fn_ret[2].fn)
        => fn_ret[2].value = RNeg(fn_ret[1].value)

\* a text with the sign after it has been parsed to something else than the
\* negative of the text's value
C17_TrailingSignNotRead ==
    /\ fn_arg \in SignedPairs /\ Len(fn_ret) = 2 /\ fn_ret[1].fn = fn_ret[2].fn
    /\ fn_arg[2][Len(fn_arg[2])] = "-"
    /\ fn_ret[2].value # RNeg(fn_ret[1].value)


(***************************************************************************)
(* The date normalizer called on texts                                     *)
(***************************************************************************)
\* the texts handed to the normalizer
DateTexts ==
    { <<"3", "0", ".", "1", "0", ".", "2", "0", "2", "4">>,
      <<"3", "0", "/", "1", "0", "/", "2", "0", "2", "4">>,
      <<"2", "0", "2", "4", "-", "1", "0", "-", "3", "0">>,
      <<"i", "n", "v", "a", "l", "i", "d">>,
      <<"-", "-">>,
      <<"1", ".", "2", ".">>,
      <<".", ".">>,
      <<"1", "/", "2", "/", "3">>,
      <<"3", "0", " ", "o", "c", "t", "o", "b", "e", "r", " ", "2", "0", "2", "4">>,
      <<"3", "0", " ", "o", "k", "t", "o", "b", "e", "r", " ", "2", "0", "2", "4">>,
      <<"3", "0", " ", "o", "c", "t", "o", "b", "r", "e", " ", "2", "0", "2", "4">>,
      <<"5", " ", "m", "a", "i", " ", "2", "0", "2", "4">>,
      <<"2", "0", "2", "4", "-", "1", "-", "5">>,
      <<"9", "9", ".", "9", "9", ".", "2", "0", "2", "4">>,
      <<"3", "0", "-", "1", "0", "-", "2", "4">>,
      <<"3", "0", ".", "1", "0">>,
      <<"2", "0", "2", "4">>,
      <<"a", "-", "b", "-", "c">>,
      <<"1", "-", "-">>,
      <<"-", "/", ".">>,
      <<"3", "0", ".", "1", "0", ".", "2", "0", "2", "4", " ">>,
      <<"D", "a", "t", "e", ":", " ", "3", "0", "-", "1", "0", "-", "2", "0", "2", "4">>,
      <<"3", " ", "m", "a", "r", " ", "2", "4">>,
      <<"1", "2", " ", "d", "<e-acute>", "c", "e", "m", "b", "r", "e", " ", "2", "0", "2", "3">>,
      <<"2", "0", "2", "4", "-", "-">>,
      <<"1", "0", "/", "2", "0", "2", "4">>,
      <<"1", " ", "2", " ", "3", " ", "4">>,
      <<"2", "4", ".", "1", "0", ".", "3", "0">> }

\* the language hints: the three with a table of month names, and another
DateLanguages == {"en", "nl", "fr", "de"}

\* a caller is about to normalize a text under a language hint
InitDate ==
    /\ ParserAtStart /\ NoValidator /\ NoOther /\ NoText
    /\ fn_pc = "calling"
    /\ fn_arg \in DateTexts \X DateLanguages
    /\ fn_ret = <<>>

\* unified_parser/utils.py, normalize_date: it returns or raises
NormalizeDate ==
    /\ fn_pc = "calling"
    /\ \E r \in {normalize_date(fn_arg[1], fn_arg[2])} :
         /\ fn_ret' = <<r>>
         /\ fn_pc' = IF r.raises THEN "raised" ELSE "returned"
    /\ UNCHANGED <<fn_arg, other, v_pc, v_data, errors, warnings,
                   cfg, pc, data, tablevars, stages, text>>

NextDate == NormalizeDate

SpecDate == InitDate /\ [][NextDate]_vars


(***************************************************************************)
(* C18: the date normalizer                                                *)
(***************************************************************************)
\* YYYY-MM-DD: four digits, two digits and two digits between hyphens
IsIsoDate(v) ==
    /\ Len(v) = 10
    /\ v[5] = "-" /\ v[8] = "-"
    /\ \A i \in (1..10) \ {5, 8} : IsDigit(v[i])

\* what the text reduces to: lines 93 and 124-136
DateParts(date_str, language) ==
    SplitDate(Strip(CollapseSpaces(BlankNonDate(
        ReplaceMonth(Strip(StrLower(date_str)), MonthMap(language))))))

\* the text reduces to exactly three numeric parts
ThreeNumericParts(date_str, language) ==
    LET parts == DateParts(date_str, language)
    IN  Len(parts) = 3 /\ \A i \in 1..3 : parts[i] # <<>> /\ AllDigits(parts[i])

\* the three spellings of 30 October 2024 the tests name
OctoberThirtieth ==
    { <<"3", "0", ".", "1", "0", ".", "2", "0", "2", "4">>,
      <<"3", "0", "/", "1", "0", "/", "2", "0", "2", "4">>,
      <<"2", "0", "2", "4", "-", "1", "0", "-", "3", "0">> }

\* C18: the date normalizer never raises: for every text and language hint
\* it returns an ISO YYYY-MM-DD string or null, null for every text that does
\* not reduce to exactly three numeric parts ("invalid", "--"), and
\* "2024-10-30" for "30.10.2024", "30/10/2024" and "2024-10-30".
C18_NormalizerReturnsIsoOrNull ==
    fn_pc \in {"returned", "raised"} =>
        /\ ~fn_ret[1].raises
        /\ fn_ret[1].value = NoneValue \/ IsIsoDate(fn_ret[1].value)
        /\ ~ThreeNumericParts(fn_arg[1], fn_arg[2]) => fn_ret[1].value = NoneValue
        /\ fn_arg[1] \in OctoberThirtieth =>
              fn_ret[1].value = <<"2", "0", "2", "4", "-", "1", "0", "-", "3", "0">>

\* the normalizer has raised on the text "--"
C18_SeparatorsOnlyRaises ==
    fn_pc = "raised" /\ fn_arg[1] = <<"-", "-">>


(***************************************************************************)
(* The Totals Reconciler run once more on the result of extract()          *)
(***************************************************************************)
\* footers with a discount of nothing
ZeroDiscountFooterTexts ==
    { [gross_amount |-> <<"1", "0", "0", ".", "0", "0">>, discount_amount |-> <<"0">>,
       total |-> <<"4", "2", ".", "0", "0">>],
      [gross_amount |-> <<"1", "0", "0", ".", "0", "0">>, discount_amount |-> <<"0", ".", "0", "0">>] }

\* _calculate_fallbacks called on the data extract() has returned
CalculateFallbacksAgain ==
    /\ pc = "done"
    /\ \E r \in {calculate_fallbacks(data.order_items, data.totals)} :
           /\ data' = [data EXCEPT !.totals = r.totals]
           /\ pc' = IF r.raises THEN "raised" ELSE "discount_again"
    /\ UNCHANGED <<aux, cfg, tablevars, stages>>

\* _apply_global_discount called after it
ApplyGlobalDiscountAgain ==
    /\ pc = "discount_again"
    /\ \E r \in {apply_global_discount(data.order_items, data.totals)} :
           /\ data' = [data EXCEPT !.order_items = r.order_items, !.totals = r.totals]
           /\ pc' = IF r.raises THEN "raised" ELSE "reconciled_again"
    /\ UNCHANGED <<aux, cfg, tablevars, stages>>

NextTwice ==
    \/ \E file \in ConfigFiles : LoadConfig(file)
    \/ Construct
    \/ OpenDocument
    \/ \E caps \in HeaderTexts : ExtractHeader(caps)
    \/ \E row \in CellRows \cup PackedRows :
          pc = "table" /\ row \in RowsOf(cfg.vendor.name) /\ TableRow(row)
    \/ \E line \in Lines : TableLine(line)
    \/ \E alt \in BOOLEAN, groups \in RowMatches : TableMatch(alt, groups)
    \/ TableDone
    \/ \E caps \in FooterTexts \cup ZeroDiscountFooterTexts : ExtractFooter(caps)
    \/ CalculateFallbacks
    \/ ApplyGlobalDiscount
    \/ ApplyInleadLogic
    \/ ApplyDynveoLogic
    \/ ApplyLifeProLogic
    \/ CalculateFallbacksAgain
    \/ ApplyGlobalDiscountAgain

SpecTwice == Init /\ [][NextTwice]_vars

(***************************************************************************)
(* C19: the reconciler is idempotent at a discount ratio of 0              *)
(***************************************************************************)
\* discount_amount is absent (or empty), or it is the number 0
ZeroDiscountRatio(totals) ==
    \/ ~Truthy(totals, "discount_amount")
    \/ PyFloat(totals["discount_amount"]) = [ok |-> TRUE, val |-> RZero]

\* C19: a second run of _calculate_fallbacks and _apply_global_discount on
\* the result of extract() changes no value when discount_amount is absent
\* or 0 (a subtotal that is set is not recomputed, no unit_price or total of
\* an item changes, nothing is raised), and extract() itself has run each of
\* the two steps exactly once when it returns.
C19_SecondReconciliationChangesNothing ==
    [][ /\ (pc \in {"done", "discount_again"} /\ pc' # pc /\ ZeroDiscountRatio(data.totals))
            => /\ data' = data
               /\ pc' \in {"discount_again", "reconciled_again"}
        /\ pc' = "done"
            => /\ Occurrences(stages', "fallbacks") = 1
               /\ Occurrences(stages', "discount") = 1 ]_vars

\* the reconciler has run a second time on a result with items, a subtotal
\* computed from them and a discount of 0
C19_ReconciledTwiceAtZeroDiscount ==
    /\ pc = "reconciled_again"
    /\ data.order_items # <<>>
    /\ Truthy(data.totals, "subtotal")
    /\ Truthy(data.totals, "discount_amount")
    /\ ZeroDiscountRatio(data.totals)

\* the same without any discount in the footer
C19_ReconciledTwiceWithoutDiscount ==
    /\ pc = "reconciled_again"
    /\ data.order_items # <<>>
    /\ Truthy(data.totals, "subtotal")
    /\ ~HasKey(data.totals, "discount_amount")


(***************************************************************************)
(* The line strategy under the four configurations of the two markers      *)
(***************************************************************************)
\* line-regex configurations: both markers, the end marker only, the start
\* marker only, no marker
MarkerConfigFiles ==
    { ConfigFile(VendorGeneric,
        [strategy |-> "text_regex", row_pattern |-> TRUE, start_marker |-> TRUE,
         end_marker |-> TRUE, columns |-> GroupColumns]),
      ConfigFile(VendorGeneric,
        [strategy |-> "text_regex", row_pattern |-> TRUE, end_marker |-> TRUE,
         columns |-> GroupColumns]),
      ConfigFile(VendorGeneric,
        [strategy |-> "text_regex", row_pattern |-> TRUE, start_marker |-> TRUE,
         columns |-> GroupColumns]),
      ConfigFile(VendorGeneric,
        [strategy |-> "text_regex", row_pattern |-> TRUE, columns |-> GroupColumns]) }

\* the lines of the documents, and lines that a marker pattern and the row
\* pattern both match
MarkerLines ==
    Lines \cup
    { [start |-> s, end |-> e, fid |-> <<>>, row |-> [matched |-> TRUE, groups |-> g]]
        : s \in BOOLEAN, e \in BOOLEAN,
          g \in { m \in RowMatches : m[1] = <<"B">> } }

NextMarkers ==
    \/ \E file \in MarkerConfigFiles : LoadConfig(file)
    \/ Construct
    \/ OpenDocument
    \/ \E caps \in SharedHeaderTexts : ExtractHeader(caps)
    \/ \E line \in MarkerLines : TableLine(line)
    \/ TableDone
    \/ \E caps \in SharedFooterTexts : ExtractFooter(caps)
    \/ CalculateFallbacks
    \/ ApplyGlobalDiscount
    \/ ApplyInleadLogic
    \/ ApplyDynveoLogic
    \/ ApplyLifeProLogic

SpecMarkers == Init /\ [][NextMarkers]_vars


(***************************************************************************)
(* C20: the inside-table cursor of the line strategy                       *)
(***************************************************************************)
\* the configured start marker, and the configured end marker, match the line
StartsTable(line) == cfg.table.start_marker /\ line.start

EndsTable(line) == cfg.table.end_marker /\ line.end /\ ~StartsTable(line)

\* the step reads one more line of the text
ReadsLine == pc = "table" /\ rows_read' = rows_read + 1

\* the step emits nothing: no item, no cached row, no freight total
EmitsNothing == items' = items /\ pending_item' = pending_item /\ data' = data

\* the marker lines move the cursor, every other line leaves it
CursorFollowsMarkers ==
    /\ StartsTable(row_read') => in_table'
    /\ EndsTable(row_read') => ~in_table'
    /\ ~StartsTable(row_read') /\ ~EndsTable(row_read') => in_table' = in_table

\* the line read before this one was an end-marker line
AfterEndMarker == rows_read > 0 /\ EndsTable(row_read)

\* the line read before this one was a start-marker line
AfterStartMarker == rows_read > 0 /\ StartsTable(row_read)

\* C20: in the line strategy the cursor is switched on by a start-marker
\* line and off by an end-marker line; no item is emitted from a marker line
\* nor from a line that follows an end-marker line and is no start-marker
\* line; a row-pattern line behind a start-marker line is processed, whatever
\* was read before (the scan goes on to the last line).
C20_NoItemOutsideTheMarkers ==
    [][ ReadsLine =>
          /\ CursorFollowsMarkers
          /\ StartsTable(row_read') \/ EndsTable(row_read') => EmitsNothing
          /\ AfterEndMarker /\ ~StartsTable(row_read') => EmitsNothing
          /\ (/\ AfterStartMarker
              /\ ~StartsTable(row_read') /\ ~EndsTable(row_read')
              /\ row_read'.row.matched) => calls' # calls ]_vars

\* the same for the configurations with a start marker
C20_NoItemOutsideTheMarkersWithStartMarker ==
    [][ ReadsLine /\ cfg.table.start_marker =>
          /\ CursorFollowsMarkers
          /\ StartsTable(row_read') \/ EndsTable(row_read') => EmitsNothing
          /\ AfterEndMarker /\ ~StartsTable(row_read') => EmitsNothing
          /\ (/\ AfterStartMarker
              /\ ~StartsTable(row_read') /\ ~EndsTable(row_read')
              /\ row_read'.row.matched) => calls' # calls ]_vars

\* an item stands in the list whose row was read right after an end-marker
\* line, no start marker being configured
C20_ItemAfterEndMarker ==
    /\ pc = "table" /\ ~cfg.table.start_marker /\ cfg.table.end_marker
    /\ rows_read = 2 /\ Len(items) = 1
    /\ row_read.row.matched /\ ~row_read.end

\* a table was reopened by a second start marker and a row behind it emitted
C20_RowAfterSecondStartMarker ==
    /\ pc = "table" /\ cfg.table.start_marker /\ cfg.table.end_marker
    /\ rows_read = 3 /\ Len(items) = 1 /\ in_table
    /\ row_read.row.matched


(***************************************************************************)
(* The line strategy on texts with FID lines                               *)
(***************************************************************************)
\* a line nothing matches, another FID line, and an FID line that the row
\* pattern matches too
FidLines ==
    { [start |-> FALSE, end |-> FALSE, fid |-> <<>>, row |-> NoRowMatch],
      [start |-> FALSE, end |-> FALSE, fid |-> <<"8">>, row |-> NoRowMatch] }
    \cup
    { [start |-> FALSE, end |-> FALSE, fid |-> <<"9">>,
       row |-> [matched |-> TRUE, groups |-> g]]
        : g \in { m \in RowMatches : m[1] = <<"B">> } }

NextFid ==
    \/ \E file \in MarkerConfigFiles : LoadConfig(file)
    \/ Construct
    \/ OpenDocument
    \/ \E caps \in SharedHeaderTexts : ExtractHeader(caps)
    \/ \E line \in Lines \cup FidLines : TableLine(line)
    \/ TableDone
    \/ \E caps \in SharedFooterTexts : ExtractFooter(caps)
    \/ CalculateFallbacks
    \/ ApplyGlobalDiscount
    \/ ApplyInleadLogic
    \/ ApplyDynveoLogic
    \/ ApplyLifeProLogic

SpecFid == Init /\ [][NextFid]_vars

(***************************************************************************)
(* C21: the FID line                                                       *)
(***************************************************************************)
\* the line is no marker line and lies where lines are processed
Processed(line, inside) ==
    /\ ~StartsTable(line) /\ ~EndsTable(line)
    /\ inside \/ ~cfg.table.start_marker

\* the step reads an FID line where lines are processed
ReadsFidLine == ReadsLine /\ row_read'.fid # <<>> /\ Processed(row_read', in_table)

\* the line read before this one was a row the pattern matched, and an item
\* was emitted for it: the last call of _process_item is the one of that row
AfterEmittedRow ==
    /\ rows_read > 0 /\ row_read.fid = <<>> /\ row_read.row.matched
    /\ Processed(row_read, in_table)
    /\ calls # <<>> /\ calls[Len(calls)].emit

\* C21: an FID line that immediately follows a matched row sets the sku of
\* the item emitted for that row to its digits and changes no other item; an
\* FID line emits no item itself, and it alters no item when the line before
\* it is not a row that emitted one.
C21_FidCorrectsTheAdjacentRowOnly ==
    [][ ReadsFidLine =>
          /\ Len(items') = Len(items) /\ pending_item' = pending_item
          /\ AfterEmittedRow => items' = SetLastSku(items, row_read'.fid)
          /\ ~AfterEmittedRow => items' = items ]_vars

\* the part of it that holds: the FID line changes at most the sku of the
\* last item of the list, and it emits nothing when the list has an item
C21_FidSetsSkuOfLastItem ==
    [][ ReadsFidLine /\ items # <<>> =>
          /\ items' = SetLastSku(items, row_read'.fid)
          /\ pending_item' = pending_item /\ calls' = calls ]_vars

\* an FID line has changed the sku of an item although the line before it
\* emitted nothing
C21_FidAfterAnotherLine ==
    /\ pc = "table" /\ rows_read = 3 /\ Len(calls) = 2
    /\ calls[1].emit /\ ~calls[2].emit
    /\ row_read.fid # <<>>
    /\ Len(items) = 1 /\ items[1]["sku"] = row_read.fid
    /\ calls[1].item["sku"] # row_read.fid

\* an FID line read before any item was emitted has emitted an item itself
C21_FidLineEmitted ==
    /\ pc = "table" /\ rows_read = 1 /\ row_read.fid # <<>> /\ Len(items) = 1



(***************************************************************************)
(* The block strategy on a text with rows of both layouts                  *)
(***************************************************************************)
\* what the alternate pattern captures in a row of the second layout
AltRowMatches ==
    { [g \in {1, 2, 3} |->
          CASE g = 1 -> <<"C", "a", "b", "l", "e">> [] g = 2 -> <<"2">> [] OTHER -> <<"5", ".", "0", "0">>],
      [g \in {1, 2, 3} |->
          CASE g = 1 -> <<"P", "l", "u", "g">> [] g = 2 -> <<"1">> [] OTHER -> <<"3", ".", "0", "0">>] }

\* the rows a text is made of: a row of the first layout is matched by the
\* primary pattern, a row of the second layout by the alternate pattern
BlockRows ==
    { [alt |-> FALSE, groups |-> g] : g \in { m \in RowMatches : m[1] \in {<<"A">>, <<"B">>} } }
    \cup { [alt |-> TRUE, groups |-> g] : g \in AltRowMatches }

\* the texts between the markers, from top to bottom
BlockTexts == UNION { [1..n -> BlockRows] : n \in 0..MaxRows }

\* the block strategy with the alternate pattern, and without it
BlockConfigFiles ==
    { f \in ConfigFiles : f.table.strategy = "text_regex_multiline" }
    \cup
    { ConfigFile(VendorGeneric,
        [strategy |-> "text_regex_multiline", row_pattern |-> TRUE,
         row_pattern_alt |-> TRUE, columns |-> GroupColumns,
         columns_alt |-> GroupColumnsAlt]),
      ConfigFile(VendorGeneric,
        [strategy |-> "text_regex_multiline", row_pattern |-> TRUE,
         columns |-> GroupColumns]) }

\* the rows of a text under one pattern, in the order finditer yields them
RECURSIVE FindIter(_, _)
FindIter(rows, alt) ==
    IF rows = <<>> THEN <<>>
    ELSE IF Head(rows).alt = alt THEN <<Head(rows)>> \o FindIter(Tail(rows), alt)
    ELSE FindIter(Tail(rows), alt)

\* lines 697-745: the loop over the matches of the primary pattern, then,
\* when the alternate pattern and its columns are configured, the loop over
\* the matches of the alternate pattern
BlockMatches(config, rows) ==
    FindIter(rows, FALSE)
    \o (IF config.table.row_pattern_alt /\ config.table.columns_alt # <<>>
        THEN FindIter(rows, TRUE) ELSE <<>>)

\* a document with a text between its markers is about to be parsed
InitBlock ==
    /\ ParserAtStart /\ NoValidator /\ NoOther /\ NoCall
    /\ text \in BlockTexts

\* the next match of the two loops is handled
NextTableMatch ==
    /\ pc = "table"
    /\ cfg.table.strategy = "text_regex_multiline" /\ cfg.table.row_pattern
    /\ rows_read < Len(BlockMatches(cfg, text))
    /\ \E m \in {BlockMatches(cfg, text)[rows_read + 1]} : TableMatch(m.alt, m.groups)

\* line 747, after both loops
BlockDone ==
    /\ pc = "table"
    /\ cfg.table.strategy = "text_regex_multiline" /\ cfg.table.row_pattern
    /\ rows_read = Len(BlockMatches(cfg, text))
    /\ TableDone

NextBlock ==
    \/ \E file \in BlockConfigFiles : LoadConfig(file)
    \/ Construct
    \/ OpenDocument
    \/ \E caps \in SharedHeaderTexts : ExtractHeader(caps)
    \/ NextTableMatch
    \/ BlockDone
    \/ \E caps \in FooterTexts : ExtractFooter(caps)
    \/ CalculateFallbacks
    \/ ApplyGlobalDiscount
    \/ ApplyInleadLogic
    \/ ApplyDynveoLogic
    \/ ApplyLifeProLogic

SpecBlock == InitBlock /\ [][NextBlock]_vars

(***************************************************************************)
(* C22: the order of the items of the block strategy                       *)
(***************************************************************************)
\* the rows of a text that one of the configured patterns matches
Matched(config, rows) ==
    SelectSeq(rows, LAMBDA m :
        m.alt => config.table.row_pattern_alt /\ config.table.columns_alt # <<>>)

\* the row pipeline fed with the matched rows from the top of the text to
\* its bottom
RECURSIVE InTextOrder(_, _, _)
InTextOrder(config, ps, rows) ==
    IF rows = <<>> THEN ps
    ELSE InTextOrder(config, BlockMatch(config, ps, Head(rows).alt, Head(rows).groups),
                     Tail(rows))

\* a row of the second layout stands above a row of the first layout
AltRowAbovePrimaryRow ==
    \E i, j \in 1..Len(text) : i < j /\ text[i].alt /\ ~text[j].alt

\* C22: when the block strategy has handled every match of a text, under a
\* primary and an alternate pattern, order_items holds the items of the
\* matched rows in the order in which the rows stand in the text, whichever
\* pattern matched them
C22_ItemsInTextOrder ==
    (/\ pc = "footer" /\ cfg.table.strategy = "text_regex_multiline"
     /\ cfg.table.row_pattern_alt /\ cfg.table.columns_alt # <<>>)
    => data.order_items =
         InTextOrder(cfg, [items |-> <<>>, pending |-> EmptyDict,
                           totals |-> EmptyDict, calls |-> <<>>],
                     Matched(cfg, text)).items

\* the items of the rows of one layout keep the order of the text
C22_ItemsInTextOrderWithinOneLayout ==
    (/\ pc = "footer" /\ cfg.table.strategy = "text_regex_multiline"
     /\ ~AltRowAbovePrimaryRow)
    => data.order_items =
         InTextOrder(cfg, [items |-> <<>>, pending |-> EmptyDict,
                           totals |-> EmptyDict, calls |-> <<>>],
                     Matched(cfg, text)).items

\* both loops have run on a text whose first row is of the second layout
C22_AltRowFirstInText ==
    /\ pc = "footer" /\ cfg.table.row_pattern_alt /\ cfg.table.columns_alt # <<>>
    /\ AltRowAbovePrimaryRow
    /\ Len(data.order_items) >= 2



(***************************************************************************)
(* The structured-table strategy on documents of several tables            *)
(***************************************************************************)
\* rows read in a document of several tables
MaxTableRows == 4

\* header keywords with and without a least number of columns
TableConfigFiles ==
    { ConfigFile(VendorGeneric,
        [strategy |-> "pdfplumber_table", header_keywords |-> HeaderKeywordsData,
         columns |-> IndexColumnsTyped]),
      ConfigFile(VendorGeneric,
        [strategy |-> "pdfplumber_table", header_keywords |-> HeaderKeywordsData,
         columns |-> IndexColumnsTyped, min_columns |-> 3]) }

\* the header row, a row of an item, and rows of narrow tables
TableRows ==
    { row \in CellRows : row[1] \in {<<"D", "e", "s", "c", "r", "i", "p", "t", "i", "o", "n">>,
                                     <<"W", "i", "d", "g", "e", "t">>} }
    \cup { <<<<"N", "o", "t", "e">>>>,
           <<<<"B", "a", "r">>, <<"1">>>> }

\* The first row of a further detected table, lines 339-393 and, when the
\* table is processed and the row is no header, lines 382-437
TableFirstRow(row) ==
    /\ pc = "table" /\ cfg.table.strategy = "pdfplumber_table"
    /\ rows_read < MaxTableRows
    /\ \E f \in {FirstRow(cfg, items # <<>>, row)} :
         \E detect \in {IF f.header THEN detect_column_indices(row)
                        ELSE current_col_indices} :
         \E r \in {IF ~(f.process /\ ~f.header)
                   THEN [raises |-> FALSE, ps |-> PipelineState]
                   ELSE IF cfg.vendor.name = VendorIoGenix
                   THEN parse_iogenix_row(cfg.vendor.name, PipelineState, row, detect)
                   ELSE ProcessTableRow(cfg, PipelineState, row)} :
             /\ processing' = f.process
             /\ current_col_indices' = detect
             /\ SetPipeline(r.ps)
             /\ pc' = IF r.raises THEN "raised" ELSE pc
    /\ rows_read' = rows_read + 1
    /\ row_read' = row
    /\ UNCHANGED <<aux, cfg, in_table, alt_phase, stages>>

NextTables ==
    \/ \E file \in TableConfigFiles : LoadConfig(file)
    \/ Construct
    \/ OpenDocument
    \/ \E caps \in SharedHeaderTexts : ExtractHeader(caps)
    \/ \E row \in TableRows : TableRow(row)
    \/ \E row \in TableRows : TableFirstRow(row)
    \/ TableDone
    \/ \E caps \in SharedFooterTexts : ExtractFooter(caps)
    \/ CalculateFallbacks
    \/ ApplyGlobalDiscount
    \/ ApplyInleadLogic
    \/ ApplyDynveoLogic
    \/ ApplyLifeProLogic

SpecTables == Init /\ [][NextTables]_vars

(***************************************************************************)
(* C23: continuation tables                                                *)
(***************************************************************************)
\* the step reads the first row of a table that is no header row, under
\* configured header keywords
StartsHeaderlessTable(row) ==
    /\ TableFirstRow(row)
    /\ cfg.table.header_keywords # <<>>
    /\ HeaderMatches(cfg.table.header_keywords, row) < MinHeaderMatches

\* the table has the columns of a continuation table
ContinuationColumns(row) ==
    /\ cfg.table.min_columns > 0 => Len(row) >= cfg.table.min_columns
    /\ Len(row) >= Len(cfg.table.columns) - ContinuationSlack

\* C23: under configured header keywords, the rows of a table whose first
\* row is no header are processed only if the table read just before it was
\* processed (a header-matched table or a continuation of one) and the table
\* has the columns of a continuation table
C23_ContinuationOnlyAfterProcessedTable ==
    [][\A row \in TableRows :
          StartsHeaderlessTable(row) /\ processing'
          => rows_read > 0 /\ processing /\ ContinuationColumns(row)]_vars

\* under configured header keywords, the rows of a table whose first row is
\* no header are processed only if an item has been emitted before and the
\* table has the columns of a continuation table
C23_ContinuationOnlyAfterAnItem ==
    [][\A row \in TableRows :
          StartsHeaderlessTable(row) /\ processing'
          => items # <<>> /\ ContinuationColumns(row)]_vars

\* a headerless table has contributed an item after a rejected table
C23_ItemAfterRejectedTable ==
    /\ pc = "table" /\ processing /\ rows_read = MaxTableRows
    /\ Len(items) = 2
    /\ \E i \in 1..Len(calls) : calls[i].emit /\ i < Len(calls) /\ calls[Len(calls)].emit



(***************************************************************************)
(* The structured-table strategy on rows with multi-line cells             *)
(***************************************************************************)
\* typed columns, columns of the default type, and no columns
SplitConfigFiles ==
    { f \in ConfigFiles :
        /\ f.vendor.name = VendorGeneric /\ f.table.strategy = "pdfplumber_table"
        /\ "columns" \in DOMAIN f.table =>
              f.table.columns \in {IndexColumnsTyped, IndexColumnsText} }

\* the header row, a row of one line, and rows with multi-line cells: in
\* every column; in the number columns; in the description only; with
\* different numbers of lines; with a trailing line break
SplitRows ==
    { row \in CellRows : row[1] \in {<<"D", "e", "s", "c", "r", "i", "p", "t", "i", "o", "n">>,
                                     <<"W", "i", "d", "g", "e", "t">>} }
    \cup
    { <<<<"W", "h", "e", "y", "\n", "B", "a", "r">>, <<"2", "\n", "1">>,
        <<"5", ".", "0", "0", "\n", "2", ".", "5", "0">>,
        <<"1", "0", ".", "0", "0", "\n", "2", ".", "5", "0">>>>,
      <<<<"W", "h", "e", "y">>, <<"2", "\n", "1">>,
        <<"5", ".", "0", "0", "\n", "2", ".", "5", "0">>,
        <<"1", "0", ".", "0", "0", "\n", "2", ".", "5", "0">>>>,
      <<<<"W", "h", "e", "y", "\n", "I", "s", "o">>, <<"2">>,
        <<"5", ".", "0", "0">>, <<"1", "0", ".", "0", "0">>>>,
      <<<<"W", "h", "e", "y">>, <<"2", "\n", "1", "\n", "3">>,
        <<"5", ".", "0", "0", "\n", "2", ".", "5", "0">>, <<"1", "0", ".", "0", "0">>>>,
      <<<<"W", "h", "e", "y">>, <<"2">>, <<"5", ".", "0", "0">>,
        <<"1", "0", ".", "0", "0", "\n">>>> }

NextSplit ==
    \/ \E file \in SplitConfigFiles : LoadConfig(file)
    \/ Construct
    \/ OpenDocument
    \/ \E caps \in SharedHeaderTexts : ExtractHeader(caps)
    \/ \E row \in SplitRows : TableRow(row)
    \/ TableDone
    \/ \E caps \in SharedFooterTexts : ExtractFooter(caps)
    \/ CalculateFallbacks
    \/ ApplyGlobalDiscount
    \/ ApplyInleadLogic
    \/ ApplyDynveoLogic
    \/ ApplyLifeProLogic

SpecSplit == Init /\ [][NextSplit]_vars

(***************************************************************************)
(* C24: the split of a row with multi-line cells                           *)
(***************************************************************************)
\* the cell has more than one line
MultiLine(cell) == Contains(cell, <<"\n">>)

\* the cell of a configured number-typed column has more than one line
NumberCellBreaks(columns, row) ==
    \E i \in 1..Len(columns) :
        /\ columns[i].type = "number"
        /\ columns[i].index # NoIndex /\ columns[i].index < Len(row)
        /\ MultiLine(row[columns[i].index + 1])

\* the number of lines of a cell
LineCount(cell) == Len(SplitChar(cell, "\n"))

\* the largest number of lines in a cell of the row
MostLines(row) ==
    CHOOSE n \in {LineCount(row[c]) : c \in 1..Len(row)} :
        \A c \in 1..Len(row) : LineCount(row[c]) <= n

\* N synthetic rows: line i of a multi-line cell in row i, a single-line
\* cell in the first row only, blank elsewhere
SyntheticRows(row) ==
    [i \in 1..MostLines(row) |->
        [c \in 1..Len(row) |->
            IF MultiLine(row[c])
            THEN IF i <= LineCount(row[c]) THEN SplitChar(row[c], "\n")[i] ELSE <<>>
            ELSE IF i = 1 THEN row[c] ELSE <<>>]]

\* the step hands a data row of a processed table to the row handling of
\* lines 395-437
HandlesDataRow ==
    /\ pc = "table" /\ cfg.table.strategy = "pdfplumber_table"
    /\ cfg.vendor.name # VendorIoGenix
    /\ rows_read' = rows_read + 1
    /\ processing'
    /\ ~(/\ cfg.table.header_keywords # <<>>
         /\ HeaderMatches(cfg.table.header_keywords, row_read') >= MinHeaderMatches)

\* what the row pipeline holds after the rows were handed over in order
AfterRows(rows) == TableRowsToItems(cfg, PipelineState, rows).ps

C24_RowSplitWithoutColumns ==
    /\ pc = "table" /\ cfg.table.columns = <<>>
    /\ rows_read = 2 /\ Len(calls) = 2
    /\ \E c \in 1..Len(row_read) : MultiLine(row_read[c])



(***************************************************************************)
(* C25: the items of a returned result                                     *)
(***************************************************************************)
\* the keys a Canonical Line Item is required to have
CanonicalKeys == {"description", "quantity", "unit_price", "total"}

\* the item has the required keys, and a description that is empty only
\* beside a sku
IsCanonicalItem(item) ==
    /\ CanonicalKeys \subseteq DOMAIN item
    /\ item["description"] \in {<<>>, NoneValue} => Truthy(item, "sku")

\* C25: every item in order_items of a result that extract() has returned
\* has the keys description, quantity, unit_price and total, and an empty
\* description only when its sku is present and not empty
C25_ReturnedItemsAreCanonical ==
    pc = "done" => \A i \in 1..Len(data.order_items) : IsCanonicalItem(data.order_items[i])

\* every item of a returned result has a description key, and a sku or a
\* position beside an empty description
C25_ReturnedItemsAreDescribed ==
    pc = "done" =>
        \A i \in 1..Len(data.order_items) :
            /\ HasKey(data.order_items[i], "description")
            /\ data.order_items[i]["description"] = <<>> =>
                  Truthy(data.order_items[i], "sku") \/ Truthy(data.order_items[i], "position")

\* a result was returned with an item that lacks a required key
C25_ItemWithoutQuantityReturned ==
    /\ pc = "done"
    /\ \E i \in 1..Len(data.order_items) : ~HasKey(data.order_items[i], "quantity")

\* a result was returned with an item that has neither description nor sku
C25_ItemWithoutDescriptionOrSkuReturned ==
    /\ pc = "done"
    /\ \E i \in 1..Len(data.order_items) :
          /\ HasKey(data.order_items[i], "description")
          /\ data.order_items[i]["description"] = <<>>
          /\ ~Truthy(data.order_items[i], "sku")



(***************************************************************************)
(* Documents of Life Pro: items and the adjustment rows below them         *)
(***************************************************************************)
\* what the row pattern captures in the lines of such a document: two
\* items, an item without quantity, and two negative adjustments
LifeProMatches ==
    { [g \in {1, 2, 3, 4, 5} |->
          CASE g = 1 -> <<"B">> [] g = 2 -> <<"G", "a", "d", "g", "e", "t">> [] g = 3 -> <<"3">>
            [] g = 4 -> <<"1", "0", ".", "0", "0">> [] OTHER -> <<"3", "0", ".", "0", "0">>],
      [g \in {1, 2, 3, 4, 5} |->
          CASE g = 1 -> <<"D">> [] g = 2 -> <<"D", "o", "n", "g", "l", "e">> [] g = 3 -> NoneValue
            [] g = 4 -> NoneValue [] OTHER -> <<"1", "0", ".", "0", "0">>],
      [g \in {1, 2, 3, 4, 5} |->
          CASE g = 1 -> <<"P">> [] g = 2 -> <<"P", "r", "o", "m", "o">> [] g = 3 -> <<"1">>
            [] g = 4 -> <<"-", "6", ".", "0", "0">> [] OTHER -> <<"-", "6", ".", "0", "0">>],
      [g \in {1, 2, 3, 4, 5} |->
          CASE g = 1 -> <<"R">> [] g = 2 -> <<"R", "e", "f", "u", "n", "d">> [] g = 3 -> <<"1">>
            [] g = 4 -> <<"-", "1", ".", "5", "0">> [] OTHER -> <<"-", "1", ".", "5", "0">>] }

\* the lines of such a document, an FID line among them
LifeProLines ==
    { [start |-> FALSE, end |-> FALSE, fid |-> <<>>, row |-> [matched |-> TRUE, groups |-> g]]
        : g \in LifeProMatches }
    \cup { [start |-> FALSE, end |-> FALSE, fid |-> <<"7">>, row |-> NoRowMatch] }

\* the line strategy for Life Pro, and for a vendor without adjustments
LifeProConfigFiles ==
    { ConfigFile(v, [strategy |-> "text_regex", row_pattern |-> TRUE,
                     columns |-> GroupColumns])
        : v \in {VendorLifePro, VendorGeneric} }

NextLifePro ==
    \/ \E file \in LifeProConfigFiles : LoadConfig(file)
    \/ Construct
    \/ OpenDocument
    \/ \E caps \in SharedHeaderTexts : ExtractHeader(caps)
    \/ \E line \in LifeProLines : TableLine(line)
    \/ TableDone
    \/ \E caps \in FooterTexts : ExtractFooter(caps)
    \/ CalculateFallbacks
    \/ ApplyGlobalDiscount
    \/ ApplyInleadLogic
    \/ ApplyDynveoLogic
    \/ ApplyLifeProLogic

SpecLifePro == Init /\ [][NextLifePro]_vars



(***************************************************************************)
(* C26: the identity fields of an emitted item                             *)
(***************************************************************************)
\* the item without its unit_price and total
BesidePriceAndTotal(item) ==
    [k \in DOMAIN item \ {"unit_price", "total"} |-> item[k]]

\* the item sequence of the extraction: the items of the table strategy
\* while it runs, order_items afterwards
Emitted == IF pc = "table" THEN items ELSE data.order_items

\* the items before the step are there after it, at their places and the
\* same but for unit_price and total
KeepsItems ==
    /\ Len(Emitted') >= Len(Emitted)
    /\ \A i \in 1..Len(Emitted) :
          BesidePriceAndTotal(Emitted'[i]) = BesidePriceAndTotal(Emitted[i])

\* every item after the step is an item from before it, the same but for
\* unit_price and total, and the items keep their order
KeepsItemsOrRemoves ==
    \E at \in [1..Len(Emitted') -> 1..Len(Emitted)] :
        /\ \A j \in 1..Len(Emitted') :
              BesidePriceAndTotal(Emitted'[j]) = BesidePriceAndTotal(Emitted[at[j]])
        /\ \A j, k \in 1..Len(Emitted') : j < k => at[j] < at[k]

\* a step of the extraction after its construction
ExtractionStep == pc \in {"table", "footer", "fallbacks", "discount", "inlead", "dynveo", "lifepro"}

\* the step handles an FID line while an item has been emitted
HandlesFidLine ==
    /\ pc = "table" /\ rows_read' = rows_read + 1
    /\ cfg.table.strategy = "text_regex"
    /\ row_read'.fid # <<>> /\ items # <<>>

\* the step sets the sku of the last emitted item to the digits of the FID
\* line and changes nothing else in the items
SetsSkuOfLastItem ==
    /\ Len(items') = Len(items)
    /\ \A i \in 1..(Len(items) - 1) : items'[i] = items[i]
    /\ items'[Len(items)] = Put(items[Len(items)], "sku", row_read'.fid)

\* C26: no step of an extraction changes the sku or the description of an
\* item that was emitted before it: the items stay at their places and a step
\* changes at most their unit_price and total (the adjustment-row merge
\* removes the adjustment rows)
C26_EmittedIdentityIsFinal ==
    [][ExtractionStep =>
          IF pc = "lifepro" THEN KeepsItemsOrRemoves ELSE KeepsItems]_vars

\* the same, but for an FID line of the line strategy, which sets the sku of
\* the last emitted item
C26_EmittedIdentityIsFinalButForFid ==
    [][ExtractionStep =>
          IF pc = "lifepro" THEN KeepsItemsOrRemoves
          ELSE IF HandlesFidLine /\ Processed(row_read', in_table) THEN SetsSkuOfLastItem
          ELSE KeepsItems]_vars

\* an adjustment row was merged into an item emitted before it
C26_AdjustmentMerged ==
    /\ pc = "done" /\ cfg.vendor.name = VendorLifePro
    /\ Len(data.order_items) < Len(items)

\* an FID line was read after two items were emitted
C26_FidAfterTwoItems ==
    /\ pc = "table" /\ rows_read = MaxRows /\ Len(items) = 2
    /\ row_read.fid # <<>>
    /\ items[2]["sku"] = row_read.fid



(***************************************************************************)
(* C27: the merge of the adjustment rows of Life Pro                       *)
(***************************************************************************)
\* the item's total reads as a negative number
NegativeTotal(item) ==
    FloatOrZero(item, "total").ok /\ RLess(FloatOrZero(item, "total").val, RZero)

\* the item's total as a number, 0 for none
TotalOf(item) == FloatOrZero(item, "total").val

\* the sum of the totals of the negative items that stand one below the
\* other from position i on
RECURSIVE AdjustedTotal(_, _)
AdjustedTotal(order_items, i) ==
    IF i <= Len(order_items) /\ NegativeTotal(order_items[i])
    THEN RAdd(TotalOf(order_items[i]), AdjustedTotal(order_items, i + 1))
    ELSE RZero

\* every negative item merged into the item above it: an item that is not
\* negative, or stands first, stays with its total increased by the negative
\* totals below it, its quantity kept and unit_price = new total / quantity
RECURSIVE MergedAbove(_, _)
MergedAbove(order_items, i) ==
    LET item      == order_items[i]
        new_total == RAdd(TotalOf(item), AdjustedTotal(order_items, i + 1))
        qty       == FloatOrZero(item, "quantity")
        merged    == IF qty.ok /\ qty.val # RZero
                     THEN Put(Put(item, "total", Fmt2f(new_total)),
                              "unit_price", Fmt2f(RDiv(new_total, qty.val)))
                     ELSE Put(item, "total", Fmt2f(new_total))
    IN  IF i > Len(order_items) THEN <<>>
        ELSE IF i > 1 /\ NegativeTotal(item) THEN MergedAbove(order_items, i + 1)
        ELSE IF i < Len(order_items) /\ NegativeTotal(order_items[i + 1])
        THEN <<merged>> \o MergedAbove(order_items, i + 1)
        ELSE <<item>> \o MergedAbove(order_items, i + 1)

\* no item with a negative total has a predecessor
NoNegativeBelowFirst(order_items) ==
    \A i \in 2..Len(order_items) : ~NegativeTotal(order_items[i])

\* the vendor is Life Pro and the adjustment step is up
LifeProStep == pc = "lifepro" /\ StrLower(cfg.vendor.name) = StrLower(VendorLifePro)

\* C27: for Life Pro, _apply_lifepro_logic merges every item with a negative
\* total into the item directly above it, so that afterwards no item with a
\* negative total has a predecessor and the sum of the totals is unchanged
C27_EveryNegativeItemMerged ==
    [][LifeProStep =>
          /\ data'.order_items = MergedAbove(data.order_items, 1)
          /\ NoNegativeBelowFirst(data'.order_items)
          /\ TotalsUpTo(data'.order_items, Len(data'.order_items))
               = TotalsUpTo(data.order_items, Len(data.order_items))]_vars

\* for Life Pro, the step keeps the sum of the totals, and where no two
\* negative items stand one below the other it merges every one of them
C27_SingleNegativeItemsMerged ==
    [][LifeProStep =>
          /\ TotalsUpTo(data'.order_items, Len(data'.order_items))
               = TotalsUpTo(data.order_items, Len(data.order_items))
          /\ (\A i \in 2..(Len(data.order_items) - 1) :
                 ~(NegativeTotal(data.order_items[i]) /\ NegativeTotal(data.order_items[i + 1])))
             => /\ data'.order_items = MergedAbove(data.order_items, 1)
                /\ NoNegativeBelowFirst(data'.order_items)]_vars

\* a result of Life Pro was returned with a negative item below another item
C27_NegativeItemLeft ==
    /\ pc = "done" /\ cfg.vendor.name = VendorLifePro
    /\ ~NoNegativeBelowFirst(data.order_items)

\* a result of Life Pro was returned after a merge
C27_NegativeItemMerged ==
    /\ pc = "done" /\ cfg.vendor.name = VendorLifePro
    /\ Len(items) = 2 /\ NegativeTotal(items[2]) /\ ~NegativeTotal(items[1])
    /\ Len(data.order_items) = 1



(***************************************************************************)
(* C28: the discount step when the footer has no total                     *)
(***************************************************************************)
\* the footer yielded gross_amount and discount_amount and no total
AmountsWithoutTotal(totals) ==
    /\ Truthy(totals, "gross_amount") /\ Truthy(totals, "discount_amount")
    /\ ~Truthy(totals, "total")

\* C28: when the footer yields gross_amount and discount_amount and no total,
\* _apply_global_discount leaves totals.total set to the subtotal with two
\* decimals and extract() goes on; the discount step never raises
C28_DiscountSetsMissingTotal ==
    [][pc = "discount" =>
          /\ pc' # "raised"
          /\ AmountsWithoutTotal(data.totals) =>
                /\ HasKey(data'.totals, "total")
                /\ data'.totals["total"] = Fmt2f(FloatOrZero(data.totals, "subtotal").val)]_vars

\* the discount step raises exactly when the footer yielded both amounts and
\* no total, and then leaves the totals as they are
C28_DiscountRaisesOnMissingTotal ==
    [][pc = "discount" =>
          /\ pc' = "raised" <=> AmountsWithoutTotal(data.totals)
          /\ data'.totals = data.totals]_vars

\* extract() has raised in the discount step
C28_RaisedInDiscountStep ==
    /\ pc = "raised" /\ stages # <<>> /\ stages[Len(stages)] = "fallbacks"
    /\ AmountsWithoutTotal(data.totals)



(***************************************************************************)
(* The multi-line merge on documents without table markers                 *)
(***************************************************************************)
\* the line strategy of the vendor whose rows are merged, every line of the
\* text taken for a line of the table
MergeConfigFiles ==
    { ConfigFile(VendorShakerStore,
        [strategy |-> "text_regex", row_pattern |-> TRUE, columns |-> GroupColumns]) }

NextMerge ==
    \/ \E file \in MergeConfigFiles : LoadConfig(file)
    \/ Construct
    \/ OpenDocument
    \/ \E caps \in SharedHeaderTexts : ExtractHeader(caps)
    \/ \E line \in Lines : TableLine(line)
    \/ TableDone
    \/ \E caps \in SharedFooterTexts : ExtractFooter(caps)
    \/ CalculateFallbacks
    \/ ApplyGlobalDiscount
    \/ ApplyInleadLogic
    \/ ApplyDynveoLogic
    \/ ApplyLifeProLogic

SpecMerge == Init /\ [][NextMerge]_vars

(***************************************************************************)
(* C29: the pending cache of the multi-line merge                          *)
(***************************************************************************)
\* the call merged a priced row with the cached identity row
Merges(call) == PricedOnly(call.raw) /\ ~Idle(call.before)

\* the row of the call went past the merge stage as it stood
PassesStraight(call) == ~IdentityOnly(call.raw) /\ ~PricedOnly(call.raw)

\* C29: under the vendor whose rows are merged, a priced row is merged only
\* with the identity row handed to _process_item just before it, the pending
\* cache is empty after every row that passed straight through, and it is
\* empty when extract() has returned
C29_MergeOnlyWithThePrecedingRow ==
    cfg # EmptyDict /\ cfg.vendor.name = VendorShakerStore =>
        /\ \A i \in 1..Len(calls) :
              /\ Merges(calls[i]) =>
                    /\ i > 1 /\ IdentityOnly(calls[i - 1].raw)
                    /\ calls[i].before = calls[i - 1].raw
              /\ PassesStraight(calls[i]) => Idle(calls[i].after)
        /\ pc = "done" => Idle(pending_item)

\* a priced row is merged only with the identity row cached last, and no
\* identity row and no priced row was handed over between the two
C29_MergeWithTheLastCachedRow ==
    cfg # EmptyDict /\ cfg.vendor.name = VendorShakerStore =>
        \A i \in 1..Len(calls) :
            Merges(calls[i]) =>
                \E j \in 1..(i - 1) :
                    /\ IdentityOnly(calls[j].raw) /\ calls[i].before = calls[j].raw
                    /\ \A k \in (j + 1)..(i - 1) : PassesStraight(calls[k])

\* a priced row was merged with an identity row across a row in between
C29_MergedAcrossARow ==
    /\ cfg # EmptyDict /\ cfg.vendor.name = VendorShakerStore
    /\ Len(calls) = 3
    /\ IdentityOnly(calls[1].raw) /\ PassesStraight(calls[2]) /\ Merges(calls[3])
    /\ calls[3].emit /\ Get(calls[3].item, "sku") = calls[1].raw["sku"]

\* extract() has returned while an identity row was cached
C29_ReturnedWithCachedRow ==
    /\ cfg # EmptyDict /\ cfg.vendor.name = VendorShakerStore
    /\ pc = "done" /\ ~Idle(pending_item)



(***************************************************************************)
(* Documents whose footer yields no subtotal                               *)
(***************************************************************************)
\* what the footer patterns capture when the subtotal pattern matches nothing
ComputedFooterTexts == { caps \in FooterTexts : "subtotal" \notin DOMAIN caps }

NextComputed ==
    \/ \E file \in LifeProConfigFiles : LoadConfig(file)
    \/ Construct
    \/ OpenDocument
    \/ \E caps \in SharedHeaderTexts : ExtractHeader(caps)
    \/ \E line \in LifeProLines : TableLine(line)
    \/ TableDone
    \/ \E caps \in ComputedFooterTexts : ExtractFooter(caps)
    \/ CalculateFallbacks
    \/ ApplyGlobalDiscount
    \/ ApplyInleadLogic
    \/ ApplyDynveoLogic
    \/ ApplyLifeProLogic

SpecComputed == Init /\ [][NextComputed]_vars

(***************************************************************************)
(* C30: the computed subtotal and the items of the result                  *)
(***************************************************************************)
\* two amounts differ by at most 0.01
WithinACent(a, b) == ~RLess(Rat(1, 100), RAbs(RSub(a, b)))

\* totals.subtotal is the sum of total over order_items, to within 0.01
SubtotalIsSum ==
    /\ Truthy(data.totals, "subtotal")
    /\ WithinACent(FloatOrZero(data.totals, "subtotal").val,
                   TotalsUpTo(data.order_items, Len(data.order_items)))

\* C30: when the footer yields no subtotal and the table strategy yielded an
\* item, the result that extract() returns has totals.subtotal equal to the
\* sum of total over its order_items, to within 0.01, whatever the discount
\* step and the Life Pro merge did to the items
C30_ComputedSubtotalIsSumOfReturnedTotals ==
    pc = "done" /\ items # <<>> => SubtotalIsSum

\* the same for the documents whose footer yields no discount
C30_ComputedSubtotalIsSumWithoutDiscount ==
    pc = "done" /\ items # <<>> /\ ~DiscountApplies(data.totals) => SubtotalIsSum

\* a result was returned whose items the discount step has changed after
\* the subtotal was computed from them
C30_ReturnedAfterDiscount ==
    /\ pc = "done" /\ data.order_items # <<>>
    /\ DiscountApplies(data.totals)
    /\ Get(data.totals, "subtotal") = Fmt2f(TotalsUpTo(items, Len(items)))
    /\ TotalsUpTo(data.order_items, Len(data.order_items)) # TotalsUpTo(items, Len(items))

\* a result of Life Pro was returned with a computed subtotal after a merge
C30_ReturnedAfterMerge ==
    /\ pc = "done" /\ cfg.vendor.name = VendorLifePro
    /\ ~DiscountApplies(data.totals)
    /\ Len(data.order_items) < Len(items)
    /\ Get(data.totals, "subtotal") = Fmt2f(TotalsUpTo(items, Len(items)))
====
